---- MODULE Spec2Model ----
(***************************************************************************)
(* A model of the artifact inspection pipeline of trivy: the image         *)
(* artifact inspector with its blob cache, the CBL-Mariner OS package      *)
(* detector and the result filter.                                         *)
(***************************************************************************)
EXTENDS Naturals, Integers, Sequences, FiniteSets, TLC

VARIABLES
    \* ---- image inspector (pkg/fanal/artifact/image) ----
    image,          \* the types.Image handle: its ID and the config file's diffIDs
    artifact,       \* the Artifact struct: artifactOption and the version sets
    cacheBlobs,     \* cache: blob key -> BlobInfo
    cacheArtifacts, \* cache: artifact key -> ArtifactInfo
    pc,             \* position of the Inspect call
    run,            \* number of Inspect calls started
    missingImage,   \* missingImageKey of Inspect (NoKey when the image key is cached)
    missingLayers,  \* layer keys MissingBlobs reported, the pipeline's items
    status,         \* per pipeline item: "todo", "running", "done", "failed"
    osFound,        \* the osFound variable shared by the pipeline workers
    ref,            \* the ArtifactReference Inspect returned (NoRef before)
    err,            \* the error Inspect returned ("" for nil)
    \* ---- history of the current Inspect call ----
    analyzed,       \* layer keys handed to inspectLayer in this call
    puts,           \* layer keys PutBlob stored in this call
    putArtifacts,   \* keys PutArtifact stored in this call
    cachedAtQuery,  \* the blob keys the cache held when MissingBlobs ran
    queried,        \* whether this call has called MissingBlobs on the cache
    failedPuts,     \* keys that earlier failed calls persisted and the cache still holds
    lastGood,       \* the Artifact of the last Inspect that scanned the image with
                    \* success while no blob was deleted since (NoArtifact otherwise)
    repeat,         \* whether this call repeats lastGood: same image, same Artifact
    \* ---- CBL-Mariner detector (pkg/detector/ospkg/mariner) ----
    osVer,          \* the osVer argument of Detect
    pkgs,           \* the pkgs argument of Detect
    vs,             \* the advisory source: source package name -> advisories, or an error
    vulns,          \* the vulnerabilities Detect returned
    detectErr,      \* the error Detect returned ("" for nil)
    detectPc,       \* "call" before Detect has run, "done" after
    \* ---- result filter (pkg/result) ----
    result,         \* the types.Result that FilterResult filters in place
    opt,            \* the FilterOption
    prev,           \* the result as it was before the last call of FilterResult
    filterErr,      \* the error the last call returned ("" for nil)
    passes,         \* number of calls of FilterResult on the result
    outVulns,       \* the slice filterVulnerabilities returned, called on its own
    \* ---- ignore file (pkg/result getIgnoredIDs) ----
    ignoreLines,    \* the lines of the ignore file that is read
    now,            \* the time time.Now() returns
    activeIDs,      \* the IDs getIgnoredIDs returned
    ignorePc,       \* "call" before getIgnoredIDs has run, "done" after
    \* ---- base layers of an image (pkg/fanal/artifact/image guessBaseLayers) ----
    history,        \* the History of the image config: per entry, whether it is an EmptyLayer
    baseImageIndex, \* the index image.GuessBaseImageIndex returned for the history
    layerDiffIDs,   \* the diffIDs of the image
    baseDiffIDs,    \* the slice guessBaseLayers returned
    disabledAt,     \* per layer position, the analyzers the pipeline callback disabled
    basePc,         \* "call" before guessBaseLayers has run, "pipeline" after
    \* ---- cache keys of two Inspect calls on one image (calcCacheKeys) ----
    keyImage,       \* the image both calls inspect: its ID and diffIDs
    keyArtifacts,   \* the Artifact struct of the first and of the second call
    cacheKeys,      \* per call made, the image key and the layer keys calcCacheKeys returned
    \* ---- OS package detector registry (pkg/detector/ospkg) ----
    drivers,        \* the names in the drivers map
    osFamily,       \* the osFamily argument of ospkg.Detect
    osName,         \* the osName argument of ospkg.Detect
    ospkgPkgs,      \* the pkgs argument of ospkg.Detect
    ospkgVs,        \* the advisory source of the CBL-Mariner driver
    driverCalls,    \* the calls ospkg.Detect made on drivers: <<name, method>>
    driverOut,      \* what the driver's Detect returned to ospkg.Detect
    ospkgOut,       \* what ospkg.Detect returned: vulns, eosl, err
    ospkgPc,        \* "call" before ospkg.Detect has run, "done" after
    \* ---- registry credentials (pkg/fanal/image/registry GetToken) ----
    registries,     \* the registries slice: per registry, what its methods return
    registryCalls,  \* the calls GetToken made: <<position of the registry, method>>
    auth,           \* the authn.Basic GetToken returned
    tokenPc,        \* "call" before GetToken has run, "done" after
    \* ---- local artifact (pkg/fanal/artifact/local) and Clean ----
    rootTree,       \* the content of the directory tree under rootPath
    localArtifact,  \* the local Artifact struct: artifactOption and the version sets
    localCache,     \* cache: blob key -> BlobInfo, shared with the image artifact
    localRef,       \* the ArtifactReference the local Inspect returned (NoRef before)
    localErr,       \* the error the last call of Inspect or Clean returned ("" for nil)
    localPuts,      \* the keys of the PutBlob calls of the last Inspect, in order
    cacheBefore,    \* the cache as it was when the last Clean was called
    localRuns,      \* number of calls of the local Inspect
    localPc,        \* the last call that returned: "call" before the first one
    \* ---- one inspectLayer call, or the walk of one local Inspect, and its analyzer tasks ----
    scanKind,       \* "layer" for inspectLayer of an image, "local" for the local Inspect
    layerPc,        \* position of the call: "call", "walk", "wait", "post", "handle", "returned"
    toWalk,         \* number of files the walker has still to deliver
    tasks,          \* per file-analyzer task AnalyzeFile started: "running" or "done"
    reader,         \* the layer reader rc: "none", "open", "closed"
    scratch,        \* the directory of os.MkdirTemp: "none", "exists", "removed"
    postAnalyzeCalls, \* number of calls of PostAnalyze
    layerErr,       \* the error the call returned ("" for nil)
    runningAtReturn, \* number of tasks that were running when the call returned
    \* ---- the Dockerfile-from-history analyzer ----
    configHistory,  \* CreatedBy of the history entries of the image config, bottom first
    histBaseIndex,  \* the index image.GuessBaseImageIndex returns for the history (from 0, -1 for none)
    healthcheck,    \* Config.Healthcheck of the image config
    dockerfile,     \* the lines written to the Dockerfile buffer
    historyPc,      \* "call" before Analyze, "done" after it
    \* ---- the Terraform post-analyzer ----
    filePath,       \* the path handed to Required, a sequence of characters
    required,       \* the value Required returned
    terraformPc     \* "call" before Required, "done" after it

inspectVars == <<image, artifact, cacheBlobs, cacheArtifacts, pc, run, missingImage,
                 missingLayers, status, osFound, ref, err, analyzed, puts,
                 putArtifacts, cachedAtQuery, queried, failedPuts, lastGood, repeat>>

detectVars == <<osVer, pkgs, vs, vulns, detectErr, detectPc>>

filterVars == <<result, opt, prev, filterErr, passes, outVulns>>

ignoreVars == <<ignoreLines, now, activeIDs, ignorePc>>

baseVars == <<history, baseImageIndex, layerDiffIDs, baseDiffIDs, disabledAt, basePc>>

keyVars == <<keyImage, keyArtifacts, cacheKeys>>

ospkgVars == <<drivers, osFamily, osName, ospkgPkgs, ospkgVs, driverCalls, driverOut, ospkgOut, ospkgPc>>

tokenVars == <<registries, registryCalls, auth, tokenPc>>

localVars == <<rootTree, localArtifact, localCache, localRef, localErr, localPuts, cacheBefore, localRuns, localPc>>

layerVars == <<scanKind, layerPc, toWalk, tasks, reader, scratch, postAnalyzeCalls, layerErr, runningAtReturn>>

historyVars == <<configHistory, histBaseIndex, healthcheck, dockerfile, historyPc>>

terraformVars == <<filePath, required, terraformPc>>

vars == <<inspectVars, detectVars, filterVars, ignoreVars, baseVars, keyVars, ospkgVars, tokenVars, localVars, layerVars, historyVars, terraformVars>>

\* What the actions of one part leave alone: the variables of the other parts.
notInspectVars == <<detectVars, filterVars, ignoreVars, baseVars, keyVars, ospkgVars, tokenVars, localVars, layerVars, historyVars, terraformVars>>

notDetectVars == <<inspectVars, filterVars, ignoreVars, baseVars, keyVars, ospkgVars, tokenVars, localVars, layerVars, historyVars, terraformVars>>

notFilterVars == <<inspectVars, detectVars, ignoreVars, baseVars, keyVars, ospkgVars, tokenVars, localVars, layerVars, historyVars, terraformVars>>

notIgnoreVars == <<inspectVars, detectVars, filterVars, baseVars, keyVars, ospkgVars, tokenVars, localVars, layerVars, historyVars, terraformVars>>

notBaseVars == <<inspectVars, detectVars, filterVars, ignoreVars, keyVars, ospkgVars, tokenVars, localVars, layerVars, historyVars, terraformVars>>

notKeyVars == <<inspectVars, detectVars, filterVars, ignoreVars, baseVars, ospkgVars, tokenVars, localVars, layerVars, historyVars, terraformVars>>

notOspkgVars == <<inspectVars, detectVars, filterVars, ignoreVars, baseVars, keyVars, tokenVars, localVars, layerVars, historyVars, terraformVars>>

notTokenVars == <<inspectVars, detectVars, filterVars, ignoreVars, baseVars, keyVars, ospkgVars, localVars, layerVars, historyVars, terraformVars>>

notLocalVars == <<inspectVars, detectVars, filterVars, ignoreVars, baseVars, keyVars, ospkgVars, tokenVars, layerVars, historyVars, terraformVars>>

notLayerVars == <<inspectVars, detectVars, filterVars, ignoreVars, baseVars, keyVars, ospkgVars, tokenVars, localVars, historyVars, terraformVars>>

notHistoryVars == <<inspectVars, detectVars, filterVars, ignoreVars, baseVars, keyVars, ospkgVars, tokenVars, localVars, layerVars, terraformVars>>

notTerraformVars == <<inspectVars, detectVars, filterVars, ignoreVars, baseVars, keyVars, ospkgVars, tokenVars, localVars, layerVars, historyVars>>

\* ------------------------------------------------------------------------
\* Bounds of the model
\* ------------------------------------------------------------------------
MaxLayers == 2
MaxRuns == 2
MaxPkgs == 2
MaxVulns == 2
MaxFindings == 2
MaxPasses == 2
MaxFields == 2
MaxLines == 2
MaxHistory == 3
MaxRegistries == 4
MaxFiles == 3
MaxEntries == 2
MaxPathLen == 5

\* ------------------------------------------------------------------------
\* Helpers
\* ------------------------------------------------------------------------
Range(s) == {s[i] : i \in 1..Len(s)}

SeqsUpTo(S, n) == UNION {[1..k -> S] : k \in 0..n}

\* ------------------------------------------------------------------------
\* The image artifact inspector
\* ------------------------------------------------------------------------
DiffIDSet == {"sha256:d1", "sha256:d2", "sha256:d3"}

\* The OS an analysis of the layer finds ("" when the layer holds no OS file).
LayerOS(diffID) ==
    CASE diffID = "sha256:d1" -> "alpine"
      [] diffID = "sha256:d2" -> ""
      [] OTHER -> "debian"

FilePatternSet == {"patterns-a", "patterns-b"}
HandlerVersionSet == {1, 2}

DefaultArtifact == [Slow |-> FALSE, FilePatterns |-> "patterns-a", analyzerVersions |-> 1,
                    handlerVersions |-> 1, configAnalyzerVersions |-> 1]

\* The artifacts NewArtifact builds: the default one, one with other artifact
\* options, and a slow one with other handler versions.
ArtifactSet ==
    {DefaultArtifact}
      \cup {[DefaultArtifact EXCEPT !.FilePatterns = p] : p \in FilePatternSet}
      \cup {[DefaultArtifact EXCEPT !.Slow = TRUE, !.handlerVersions = v] :
                v \in HandlerVersionSet \ {DefaultArtifact.handlerVersions}}

NoArtifact == [Slow |-> FALSE, FilePatterns |-> "", analyzerVersions |-> 0,
               handlerVersions |-> 0, configAnalyzerVersions |-> 0]

ZeroOption == ""

\* The empty string where a cache key is expected.
NoKey == <<>>

NoRef == [Name |-> "", Type |-> "", ID |-> <<>>, BlobIDs |-> <<>>]

ImageSet == [ID : {"sha256:img"}, DiffIDs : SeqsUpTo(DiffIDSet, MaxLayers)]

\* cache.CalcKey: a digest of its inputs, injective on them.
CalcKey(id, analyzerVersions, hookVersions, option) ==
    <<id, analyzerVersions, hookVersions, option>>

\* calcCacheKeys with the artifact option in the image key too.
imageKeyOfWithOption(a, imageID) ==
    CalcKey(imageID, a.configAnalyzerVersions, 0, a.FilePatterns)

\* Artifact.calcCacheKeys
imageKeyOf(a, imageID) ==
    CalcKey(imageID, a.configAnalyzerVersions, 0, ZeroOption)

\* the loop of calcCacheKeys: a key per diffID, appended in the order of the diffIDs
RECURSIVE layerKeysOf(_, _)
layerKeysOf(a, diffIDs) ==
    IF diffIDs = <<>> THEN <<>>
    ELSE <<CalcKey(Head(diffIDs), a.analyzerVersions, a.handlerVersions, a.FilePatterns)>>
           \o layerKeysOf(a, Tail(diffIDs))

\* The layer keys Inspect hands to inspect: those MissingBlobs reported.
itemsAll(missing, layerKeys) == layerKeys

itemsOf(missing, layerKeys) == missing

\* Artifact.consolidateCreatedBy: the map from layer key to LayerInfo
layerKeyMap(diffIDs, layerKeys) ==
    [k \in Range(layerKeys) |->
        LET i == CHOOSE j \in 1..Len(diffIDs) :
                    /\ layerKeys[j] = k
                    /\ \A l \in (j+1)..Len(diffIDs) : layerKeys[l] # k
        IN [DiffID |-> diffIDs[i]]]

\* cache.MissingBlobs: the keys, in order, that the cache does not hold
RECURSIVE MissingBlobsOf(_, _)
MissingBlobsOf(blobs, keys) ==
    IF keys = <<>> THEN <<>>
    ELSE IF Head(keys) \in DOMAIN blobs
         THEN MissingBlobsOf(blobs, Tail(keys))
         ELSE <<Head(keys)>> \o MissingBlobsOf(blobs, Tail(keys))

\* Artifact.inspectLayer: the BlobInfo of a layer
inspectLayer(layer) ==
    [DiffID |-> layer.DiffID, OS |-> LayerOS(layer.DiffID)]

workers(a) == IF a.Slow THEN 1 ELSE 5

Put(f, k, v) == [x \in DOMAIN f \cup {k} |-> IF x = k THEN v ELSE f[x]]

Delete(f, k) == [x \in DOMAIN f \ {k} |-> f[x]]

EmptyMap == [x \in {} |-> x]

InspectInit ==
    /\ image \in ImageSet
    /\ artifact = NoArtifact
    /\ cacheBlobs = EmptyMap
    /\ cacheArtifacts = EmptyMap
    /\ pc = "idle"
    /\ run = 0
    /\ missingImage = NoKey
    /\ missingLayers = <<>>
    /\ status = <<>>
    /\ osFound = ""
    /\ ref = NoRef
    /\ err = ""
    /\ analyzed = {}
    /\ puts = {}
    /\ putArtifacts = {}
    /\ cachedAtQuery = {}
    /\ lastGood = NoArtifact
    /\ repeat = FALSE
    /\ queried = FALSE
    /\ failedPuts = {}

\* The inspector at rest, for the specifications that do not run it.
InspectIdle ==
    /\ image = [ID |-> "sha256:img", DiffIDs |-> <<>>]
    /\ artifact = NoArtifact
    /\ cacheBlobs = EmptyMap
    /\ cacheArtifacts = EmptyMap
    /\ pc = "off"
    /\ run = 0
    /\ missingImage = NoKey
    /\ missingLayers = <<>>
    /\ status = <<>>
    /\ osFound = ""
    /\ ref = NoRef
    /\ err = ""
    /\ analyzed = {}
    /\ puts = {}
    /\ putArtifacts = {}
    /\ cachedAtQuery = {}
    /\ lastGood = NoArtifact
    /\ repeat = FALSE
    /\ queried = FALSE
    /\ failedPuts = {}

Failed == \E i \in DOMAIN status : status[i] = "failed"

\* NewArtifact and the head of Inspect: the image ID, the config file, the diffIDs.
InspectBegin ==
    /\ pc \in {"idle", "returned"}
    /\ run < MaxRuns
    /\ \E a \in ArtifactSet :
          /\ artifact' = a
          /\ repeat' = (a = lastGood)
    /\ pc' = "sbom"
    /\ run' = run + 1
    /\ missingImage' = NoKey
    /\ missingLayers' = <<>>
    /\ status' = <<>>
    /\ osFound' = ""
    /\ ref' = NoRef
    /\ err' = ""
    /\ analyzed' = {}
    /\ puts' = {}
    /\ putArtifacts' = {}
    /\ cachedAtQuery' = {}
    /\ queried' = FALSE
    /\ failedPuts' = (failedPuts \cup (IF Failed THEN puts ELSE {})) \cap DOMAIN cacheBlobs
    /\ UNCHANGED <<image, cacheBlobs, cacheArtifacts, lastGood>>
    /\ UNCHANGED notInspectVars

\* The remote SBOM hook without the early return: the SBOM that is found is
\* kept and the scan goes on.
RetrieveRemoteSBOMNoReturn ==
    /\ pc = "sbom"
    /\ \E outcome \in {"found", "errNoSBOMFound", "error"} :
        CASE outcome = "found" ->
                /\ ref' = [Name |-> "sbom", Type |-> "cyclonedx", ID |-> <<"sbom">>,
                           BlobIDs |-> <<<<"sbom">>>>]
                /\ pc' = "scan"
                /\ err' = ""
          [] outcome = "errNoSBOMFound" ->
                /\ pc' = "scan"
                /\ UNCHANGED <<ref, err>>
          [] OTHER ->
                /\ err' = "remote SBOM fetching error"
                /\ pc' = "returned"
                /\ UNCHANGED ref
    /\ UNCHANGED <<image, artifact, cacheBlobs, cacheArtifacts, run, missingImage,
                   missingLayers, status, osFound, analyzed, puts, putArtifacts,
                   cachedAtQuery, lastGood, repeat>>
    /\ UNCHANGED <<queried, failedPuts, notInspectVars>>

\* Inspect, the remote SBOM hook: found, the "no SBOM found" sentinel, or another error.
RetrieveRemoteSBOM ==
    /\ pc = "sbom"
    /\ \E outcome \in {"found", "errNoSBOMFound", "error"} :
        CASE outcome = "found" ->
                /\ ref' = [Name |-> "sbom", Type |-> "cyclonedx", ID |-> <<"sbom">>,
                           BlobIDs |-> <<<<"sbom">>>>]
                /\ pc' = "returned"
                /\ err' = ""
          [] outcome = "errNoSBOMFound" ->
                /\ pc' = "scan"
                /\ UNCHANGED <<ref, err>>
          [] OTHER ->
                /\ err' = "remote SBOM fetching error"
                /\ pc' = "returned"
                /\ UNCHANGED ref
    /\ UNCHANGED <<image, artifact, cacheBlobs, cacheArtifacts, run, missingImage,
                   missingLayers, status, osFound, analyzed, puts, putArtifacts,
                   cachedAtQuery, lastGood, repeat>>
    /\ UNCHANGED <<queried, failedPuts, notInspectVars>>

\* Inspect: calcCacheKeys, then cache.MissingBlobs (which may fail).
QueryCache ==
    /\ pc = "scan"
    /\ LET imageKey == imageKeyOf(artifact, image.ID)
           layerKeys == layerKeysOf(artifact, image.DiffIDs)
       IN \/ /\ missingImage' = IF imageKey \in DOMAIN cacheArtifacts THEN NoKey ELSE imageKey
             /\ missingLayers' = itemsOf(MissingBlobsOf(cacheBlobs, layerKeys), layerKeys)
             /\ status' = [i \in 1..Len(missingLayers') |-> "todo"]
             /\ cachedAtQuery' = DOMAIN cacheBlobs
             /\ pc' = "pipeline"
             /\ UNCHANGED err
          \/ /\ err' = "unable to get missing layers"
             /\ pc' = "returned"
             /\ UNCHANGED <<missingImage, missingLayers, status, cachedAtQuery>>
    /\ UNCHANGED <<image, artifact, cacheBlobs, cacheArtifacts, run, osFound, ref,
                   analyzed, puts, putArtifacts, lastGood, repeat>>
    /\ queried' = TRUE
    /\ UNCHANGED <<failedPuts, notInspectVars>>

Running == {i \in DOMAIN status : status[i] = "running"}

\* inspect, a pipeline worker receives the next item and calls inspectLayer on it.
LayerStart(i) ==
    /\ pc = "pipeline"
    /\ i \in DOMAIN status
    /\ status[i] = "todo"
    /\ \A j \in 1..(i-1) : status[j] # "todo"
    /\ Cardinality(Running) + Cardinality({j \in DOMAIN status : status[j] = "failed"})
         < workers(artifact)
    /\ status' = [status EXCEPT ![i] = "running"]
    /\ analyzed' = analyzed \cup {missingLayers[i]}
    /\ UNCHANGED <<image, artifact, cacheBlobs, cacheArtifacts, pc, run, missingImage,
                   missingLayers, osFound, ref, err, puts, putArtifacts,
                   cachedAtQuery, lastGood, repeat>>
    /\ UNCHANGED <<queried, failedPuts, notInspectVars>>

\* The worker's callback with a BlobInfo that takes its OS from the variable the
\* workers share when the layer has none.
LayerFinishShared(i) ==
    /\ pc = "pipeline"
    /\ i \in DOMAIN status
    /\ status[i] = "running"
    /\ LET layerKey == missingLayers[i]
           layer == layerKeyMap(image.DiffIDs, layerKeysOf(artifact, image.DiffIDs))[layerKey]
           own == inspectLayer(layer)
           layerInfo == [own EXCEPT !.OS = IF own.OS # "" THEN own.OS ELSE osFound]
       IN \/ /\ status' = [status EXCEPT ![i] = "failed"]
             /\ UNCHANGED <<cacheBlobs, puts, osFound>>
          \/ /\ cacheBlobs' = Put(cacheBlobs, layerKey, layerInfo)
             /\ puts' = puts \cup {layerKey}
             /\ osFound' = IF layerInfo.OS # "" THEN layerInfo.OS ELSE osFound
             /\ status' = [status EXCEPT ![i] = "done"]
    /\ UNCHANGED <<image, artifact, cacheArtifacts, pc, run, missingImage,
                   missingLayers, ref, err, analyzed, putArtifacts, cachedAtQuery,
                   lastGood, repeat>>
    /\ UNCHANGED <<queried, failedPuts, notInspectVars>>

\* inspect, the rest of the worker's callback: inspectLayer returns, PutBlob, osFound.
LayerFinish(i) ==
    /\ pc = "pipeline"
    /\ i \in DOMAIN status
    /\ status[i] = "running"
    /\ LET layerKey == missingLayers[i]
           layer == layerKeyMap(image.DiffIDs, layerKeysOf(artifact, image.DiffIDs))[layerKey]
           layerInfo == inspectLayer(layer)
       IN \/ \* inspectLayer fails
             /\ status' = [status EXCEPT ![i] = "failed"]
             /\ UNCHANGED <<cacheBlobs, puts, osFound>>
          \/ \* PutBlob fails
             /\ status' = [status EXCEPT ![i] = "failed"]
             /\ UNCHANGED <<cacheBlobs, puts, osFound>>
          \/ /\ cacheBlobs' = Put(cacheBlobs, layerKey, layerInfo)
             /\ puts' = puts \cup {layerKey}
             /\ osFound' = IF layerInfo.OS # "" THEN layerInfo.OS ELSE osFound
             /\ status' = [status EXCEPT ![i] = "done"]
    /\ UNCHANGED <<image, artifact, cacheArtifacts, pc, run, missingImage,
                   missingLayers, ref, err, analyzed, putArtifacts, cachedAtQuery,
                   lastGood, repeat>>
    /\ UNCHANGED <<queried, failedPuts, notInspectVars>>

imageReferenceMissing ==
    [Name |-> "image", Type |-> "container_image",
     ID |-> imageKeyOf(artifact, image.ID),
     BlobIDs |-> missingLayers]

\* Inspect: the ArtifactReference it returns after inspect
imageReference ==
    [Name |-> "image", Type |-> "container_image",
     ID |-> imageKeyOf(artifact, image.ID),
     BlobIDs |-> layerKeysOf(artifact, image.DiffIDs)]

\* inspect with the test of missingImage left out: the config is analyzed every time.
PipelineDoneAlways ==
    /\ pc = "pipeline"
    /\ Running = {}
    /\ \/ /\ Failed
          /\ err' = "analyze error"
          /\ pc' = "returned"
       \/ /\ \A i \in DOMAIN status : status[i] = "done"
          /\ pc' = "config"
          /\ UNCHANGED err
    /\ UNCHANGED <<image, artifact, cacheBlobs, cacheArtifacts, run, missingImage,
                   missingLayers, status, osFound, analyzed, puts, putArtifacts,
                   cachedAtQuery, repeat, ref, lastGood>>
    /\ UNCHANGED <<queried, failedPuts, notInspectVars>>

\* inspect that does not wait for the workers before it analyzes the config.
PipelineDoneEarly ==
    /\ pc = "pipeline"
    /\ \/ /\ Running = {}
          /\ Failed
          /\ err' = "analyze error"
          /\ pc' = "returned"
          /\ UNCHANGED <<ref, lastGood>>
       \/ /\ ~Failed
          /\ missingImage # NoKey
          /\ pc' = "config"
          /\ UNCHANGED <<ref, err, lastGood>>
       \/ /\ Running = {}
          /\ \A i \in DOMAIN status : status[i] = "done"
          /\ missingImage = NoKey
          /\ ref' = imageReference
          /\ lastGood' = artifact
          /\ pc' = "returned"
          /\ UNCHANGED err
    /\ UNCHANGED <<image, artifact, cacheBlobs, cacheArtifacts, run, missingImage,
                   missingLayers, status, osFound, analyzed, puts, putArtifacts,
                   cachedAtQuery, repeat>>
    /\ UNCHANGED <<queried, failedPuts, notInspectVars>>

\* p.Do returns, and a failed pipeline takes the blobs it has put out of the cache
\* again.
PipelineDoneRollback ==
    /\ pc = "pipeline"
    /\ Running = {}
    /\ \/ /\ Failed
          /\ err' = "analyze error"
          /\ pc' = "returned"
          /\ cacheBlobs' = [k \in DOMAIN cacheBlobs \ puts |-> cacheBlobs[k]]
          /\ UNCHANGED <<ref, lastGood>>
       \/ /\ \A i \in DOMAIN status : status[i] = "done"
          /\ missingImage # NoKey
          /\ pc' = "config"
          /\ UNCHANGED <<ref, err, lastGood, cacheBlobs>>
       \/ /\ \A i \in DOMAIN status : status[i] = "done"
          /\ missingImage = NoKey
          /\ ref' = imageReference
          /\ lastGood' = artifact
          /\ pc' = "returned"
          /\ UNCHANGED <<err, cacheBlobs>>
    /\ UNCHANGED <<image, artifact, cacheArtifacts, run, missingImage,
                   missingLayers, status, osFound, analyzed, puts, putArtifacts,
                   cachedAtQuery, repeat>>
    /\ UNCHANGED <<queried, failedPuts, notInspectVars>>

\* inspect: p.Do returns; on success the config is analyzed next when it was missing.
PipelineDone ==
    /\ pc = "pipeline"
    /\ Running = {}
    /\ \/ /\ Failed
          /\ err' = "analyze error"
          /\ pc' = "returned"
          /\ UNCHANGED <<ref, lastGood>>
       \/ /\ \A i \in DOMAIN status : status[i] = "done"
          /\ missingImage # NoKey
          /\ pc' = "config"
          /\ UNCHANGED <<ref, err, lastGood>>
       \/ /\ \A i \in DOMAIN status : status[i] = "done"
          /\ missingImage = NoKey
          /\ ref' = imageReference
          /\ lastGood' = artifact
          /\ pc' = "returned"
          /\ UNCHANGED err
    /\ UNCHANGED <<image, artifact, cacheBlobs, cacheArtifacts, run, missingImage,
                   missingLayers, status, osFound, analyzed, puts, putArtifacts,
                   cachedAtQuery, repeat>>
    /\ UNCHANGED <<queried, failedPuts, notInspectVars>>

\* Artifact.inspectConfig, and the return of Inspect after it.
InspectConfig ==
    /\ pc = "config"
    /\ \/ /\ cacheArtifacts' = Put(cacheArtifacts, missingImage, [OS |-> osFound])
          /\ putArtifacts' = putArtifacts \cup {missingImage}
          /\ ref' = imageReference
          /\ lastGood' = artifact
          /\ UNCHANGED err
       \/ /\ err' = "analyze error"
          /\ UNCHANGED <<cacheArtifacts, putArtifacts, ref, lastGood>>
    /\ pc' = "returned"
    /\ UNCHANGED <<image, artifact, cacheBlobs, run, missingImage, missingLayers,
                   status, osFound, analyzed, puts, cachedAtQuery, repeat>>
    /\ UNCHANGED <<queried, failedPuts, notInspectVars>>

\* cache.DeleteBlobs, called once between two Inspect calls (the Clean of a local
\* artifact that shares the cache, a cache clean).
DeleteBlobs ==
    /\ pc = "returned"
    /\ \E k \in DOMAIN cacheBlobs : cacheBlobs' = Delete(cacheBlobs, k)
    /\ lastGood' = NoArtifact
    /\ pc' = "idle"
    /\ UNCHANGED <<image, artifact, cacheArtifacts, run, missingImage,
                   missingLayers, status, osFound, ref, err, analyzed, puts,
                   putArtifacts, cachedAtQuery, repeat>>
    /\ UNCHANGED <<queried, failedPuts, notInspectVars>>

InspectNext ==
    \/ InspectBegin
    \/ RetrieveRemoteSBOM
    \/ QueryCache
    \/ \E i \in 1..MaxLayers : LayerStart(i)
    \/ \E i \in 1..MaxLayers : LayerFinish(i)
    \/ PipelineDone
    \/ InspectConfig
    \/ DeleteBlobs

\* The detector at rest, for the specifications that do not run it.
DetectIdle ==
    /\ osVer = <<>>
    /\ pkgs = <<>>
    /\ vs = <<>>
    /\ vulns = <<>>
    /\ detectErr = ""
    /\ detectPc = "idle"

EmptyResult ==
    [Vulnerabilities |-> <<>>, Misconfigurations |-> <<>>,
     MisconfSummary |-> [nil |-> TRUE, Failures |-> 0, Successes |-> 0, Exceptions |-> 0],
     Secrets |-> <<>>, Licenses |-> <<>>]

\* The filter at rest, for the specifications that do not run it.
FilterIdle ==
    /\ result = EmptyResult
    /\ opt = [Severities |-> <<>>, IgnoreUnfixed |-> FALSE, IncludeNonFailures |-> FALSE,
              IgnoreFile |-> "", PolicyFile |-> "", IgnoreLicenses |-> <<>>]
    /\ prev = EmptyResult
    /\ filterErr = ""
    /\ passes = 0
    /\ outVulns = <<>>

\* A time of the model: a date and the time of day, both as numbers that
\* order them.
Time(y, m, d, t) == <<y, m, d, t>>

\* No ignore file is read on its own; the clock shows some time of the day.
IgnoreIdle ==
    /\ ignoreLines = <<>>
    /\ now = Time(2024, 1, 1, 1)
    /\ activeIDs = <<>>
    /\ ignorePc = "off"

BaseIdle ==
    /\ history = <<>>
    /\ baseImageIndex = -1
    /\ layerDiffIDs = <<>>
    /\ baseDiffIDs = <<>>
    /\ disabledAt = <<>>
    /\ basePc = "off"

KeyIdle ==
    /\ keyImage = [ID |-> "sha256:img", DiffIDs |-> <<>>]
    /\ keyArtifacts = <<>>
    /\ cacheKeys = <<>>

NoOut == [vulns |-> <<>>, eosl |-> FALSE, err |-> <<>>]

OspkgIdle ==
    /\ drivers = {}
    /\ osFamily = ""
    /\ osName = <<>>
    /\ ospkgPkgs = <<>>
    /\ ospkgVs = <<>>
    /\ driverCalls = <<>>
    /\ driverOut = [vulns |-> <<>>, err |-> ""]
    /\ ospkgOut = NoOut
    /\ ospkgPc = "off"

EmptyBasic == [Username |-> "", Password |-> ""]

TokenIdle ==
    /\ registries = <<>>
    /\ registryCalls = <<>>
    /\ auth = EmptyBasic
    /\ tokenPc = "off"

LocalIdle ==
    /\ rootTree = ""
    /\ localArtifact = NoArtifact
    /\ localCache = EmptyMap
    /\ localRef = NoRef
    /\ localErr = ""
    /\ localPuts = <<>>
    /\ cacheBefore = EmptyMap
    /\ localRuns = 0
    /\ localPc = "off"

LayerIdle ==
    /\ scanKind = "layer"
    /\ layerPc = "off"
    /\ toWalk = 0
    /\ tasks = <<>>
    /\ reader = "none"
    /\ scratch = "none"
    /\ postAnalyzeCalls = 0
    /\ layerErr = ""
    /\ runningAtReturn = 0

HistoryIdle ==
    /\ configHistory = <<>>
    /\ histBaseIndex = -1
    /\ healthcheck = [Interval |-> 0, Timeout |-> 0, StartPeriod |-> 0, Retries |-> 0,
                      Test |-> <<>>]
    /\ dockerfile = <<>>
    /\ historyPc = "off"

TerraformIdle ==
    /\ filePath = <<>>
    /\ required = FALSE
    /\ terraformPc = "off"

InitInspect ==
    InspectInit /\ DetectIdle /\ FilterIdle /\ IgnoreIdle /\ BaseIdle /\ KeyIdle /\ OspkgIdle /\ TokenIdle /\ LocalIdle /\ LayerIdle /\ HistoryIdle /\ TerraformIdle

SpecInspect == InitInspect /\ [][InspectNext]_vars

\* ------------------------------------------------------------------------
\* Properties of the image inspector
\* ------------------------------------------------------------------------
\* The layer keys of the image under the current Artifact.
LayerKeySet == Range(layerKeysOf(artifact, image.DiffIDs))

\* The scan of the image came to its end with success: inspect returned nil.
Scanned == pc = "returned" /\ err = "" /\ ref.Type = "container_image"

\* C1: during an image Inspect only layers whose key the cache did not hold when
\* MissingBlobs ran are analyzed and put (a cached layer is neither analyzed nor
\* overwritten), a blob is put only for an analyzed layer, and once the layers'
\* pipeline has ended with success every layer key that was missing has been
\* analyzed and put.
C1_AnalyzedIffMissing ==
    /\ analyzed \cap cachedAtQuery = {}
    /\ puts \cap cachedAtQuery = {}
    /\ puts \subseteq analyzed
    /\ analyzed \subseteq LayerKeySet
    /\ (pc = "config" \/ Scanned) =>
          /\ analyzed = LayerKeySet \ cachedAtQuery
          /\ puts = LayerKeySet \ cachedAtQuery

\* C1 witness: a scan has ended with success in which one layer was cached before
\* and another one was analyzed and put.
C1_Witness ==
    /\ Scanned
    /\ LayerKeySet \cap cachedAtQuery # {}
    /\ puts # {}

\* C2: an Inspect that repeats an earlier successful scan of the image, with the
\* same Artifact and no blob deleted in between, analyzes no layer and performs no
\* PutBlob and no PutArtifact.
C2_SecondRunFromCache ==
    repeat => (analyzed = {} /\ puts = {} /\ putArtifacts = {})

\* C2 witness: the repeated Inspect of an image with layers has returned its
\* reference.
C2_Witness ==
    /\ repeat
    /\ Scanned
    /\ Len(image.DiffIDs) > 0

\* C3: the reference of a successful image Inspect lists, for every diffID of the
\* config and in their order, the key computed from that diffID.
C3_BlobIDsInLayerOrder ==
    Scanned =>
        /\ Len(ref.BlobIDs) = Len(image.DiffIDs)
        /\ \A i \in 1..Len(image.DiffIDs) :
              ref.BlobIDs[i] = CalcKey(image.DiffIDs[i], artifact.analyzerVersions,
                                       artifact.handlerVersions, artifact.FilePatterns)

\* C3 witness: a successful Inspect of an image of two different layers of which
\* the base one was cached and the top one was analyzed.
C3_Witness ==
    /\ Scanned
    /\ Len(image.DiffIDs) = 2
    /\ image.DiffIDs[1] # image.DiffIDs[2]
    /\ ref.BlobIDs[1] \in cachedAtQuery
    /\ ref.BlobIDs[2] \in puts

NothingTouched == ~queried /\ analyzed = {} /\ puts = {} /\ putArtifacts = {}

\* C12: when the remote SBOM is retrieved, Inspect returns its reference at once,
\* without a cache query, a layer analysis or a cache write; when the retrieval
\* reports "no SBOM found", Inspect goes on to the normal scan (the cache query is
\* its next step); on any other retrieval error Inspect fails with no reference,
\* no cache query and no cache write.
C12_RemoteSBOMShortCircuit ==
    /\ ref.Type = "cyclonedx" =>
          /\ pc \in {"returned", "idle"}
          /\ err = ""
          /\ NothingTouched
    /\ err = "remote SBOM fetching error" =>
          /\ pc \in {"returned", "idle"}
          /\ ref = NoRef
          /\ NothingTouched
    /\ pc = "scan" =>
          /\ ref = NoRef
          /\ err = ""
          /\ NothingTouched
          /\ ENABLED QueryCache

\* The SBOM is found on the second call for an image whose layers the first call cached.
C12_Witness ==
    /\ pc = "returned"
    /\ ref.Type = "cyclonedx"
    /\ run = 2
    /\ DOMAIN cacheBlobs # {}
    /\ NothingTouched

\* Every layer MissingBlobs reported has been analyzed and its blob put.
MissingLayersPersisted ==
    \A i \in DOMAIN missingLayers :
        /\ status[i] = "done"
        /\ missingLayers[i] \in analyzed
        /\ missingLayers[i] \in puts

\* C14: the image config is analyzed, and an ArtifactInfo put under the image key,
\* only when MissingBlobs reported the image key missing, and only after every
\* missing layer has been analyzed and its blob put; an Inspect that returns with
\* success has put the ArtifactInfo exactly when the image key was reported missing.
C14_ConfigIffImageKeyMissing ==
    /\ pc = "config" =>
          /\ missingImage = imageKeyOf(artifact, image.ID)
          /\ missingImage \notin DOMAIN cacheArtifacts
          /\ putArtifacts = {}
          /\ MissingLayersPersisted
    /\ putArtifacts # {} =>
          /\ putArtifacts = {imageKeyOf(artifact, image.ID)}
          /\ missingImage = imageKeyOf(artifact, image.ID)
          /\ missingImage \in DOMAIN cacheArtifacts
          /\ MissingLayersPersisted
    /\ Scanned => (putArtifacts # {} <=> missingImage # NoKey)

\* The config has been analyzed and put after the two missing layers of the image.
C14_Witness ==
    /\ Scanned
    /\ putArtifacts = {ref.ID}
    /\ Len(missingLayers) = 2
    /\ MissingLayersPersisted

\* The cache after the layers of items are analyzed and put one after the other.
RECURSIVE SequentialBlobs(_, _)
SequentialBlobs(blobs, items) ==
    IF items = <<>> THEN blobs
    ELSE LET layer == layerKeyMap(image.DiffIDs,
                                  layerKeysOf(artifact, image.DiffIDs))[Head(items)]
         IN SequentialBlobs(Put(blobs, Head(items), inspectLayer(layer)), Tail(items))

\* C16: whatever the order in which the pipeline workers finish, the BlobInfo put
\* under a layer key in this call is the one a sequential analysis of the missing
\* layers in their order puts there, and once every worker is done the blobs of the
\* missing layers are those of the sequential analysis.
C16_BlobsAsSequential ==
    pc \in {"pipeline", "config", "returned"} =>
        LET sequential == SequentialBlobs(EmptyMap, missingLayers)
        IN /\ \A k \in puts : k \in DOMAIN sequential /\ cacheBlobs[k] = sequential[k]
           /\ (\A i \in DOMAIN status : status[i] = "done") =>
                 /\ puts = DOMAIN sequential
                 /\ \A k \in DOMAIN sequential : cacheBlobs[k] = sequential[k]

\* The worker of the second missing layer has put its blob while the worker of the
\* first one, a different layer, is still running.
C16_Witness ==
    /\ pc = "pipeline"
    /\ Len(missingLayers) = 2
    /\ missingLayers[1] # missingLayers[2]
    /\ status = <<"running", "done">>
    /\ missingLayers[2] \in puts
    /\ cacheBlobs[missingLayers[2]].OS = ""

\* The OS of the top-most layer among the analyzed layers that report one ("" when
\* none does).
TopMostOS ==
    LET layers == layerKeyMap(image.DiffIDs, layerKeysOf(artifact, image.DiffIDs))
        found == {i \in DOMAIN missingLayers : LayerOS(layers[missingLayers[i]].DiffID) # ""}
    IN IF found = {} THEN ""
       ELSE LET top == CHOOSE i \in found : \A j \in found : j <= i
            IN LayerOS(layers[missingLayers[top]].DiffID)

\* C26 as stated: the OS handed to the image-config analyzers is the OS of the
\* top-most analyzed layer that reports one, in whatever order the workers finish.
C26_OsOfTopMostLayer ==
    pc = "config" => osFound = TopMostOS

\* C28: when the analysis or the persistence of a missing layer has failed, the
\* image Inspect returns an error and no reference, has put no ArtifactInfo, and
\* the blobs it had put before the failure are in the cache; and no Inspect
\* analyzes a layer whose blob an earlier failed Inspect has put and the cache
\* still holds.
C28_FailedLayerKeepsBlobs ==
    /\ (pc = "returned" /\ Failed) =>
          /\ err # ""
          /\ ref = NoRef
          /\ putArtifacts = {}
          /\ missingImage # NoKey => missingImage \notin DOMAIN cacheArtifacts
          /\ puts \subseteq DOMAIN cacheBlobs
          /\ \A k \in puts :
                cacheBlobs[k] = inspectLayer(layerKeyMap(image.DiffIDs,
                                    layerKeysOf(artifact, image.DiffIDs))[k])
    /\ analyzed \cap failedPuts = {}

\* A first Inspect failed on the top layer after it had put the base layer, and
\* the next Inspect with the same Artifact has ended with success: it analyzed
\* the top layer only.
C28_Witness ==
    /\ run = 2
    /\ Scanned
    /\ failedPuts # {}
    /\ failedPuts \subseteq LayerKeySet
    /\ analyzed = LayerKeySet \ failedPuts
    /\ analyzed # {}

\* ------------------------------------------------------------------------
\* The CBL-Mariner detector
\* ------------------------------------------------------------------------
\* Strings that the code parses, formats or compares are sequences of characters.
DigitValue(c) ==
    CASE c = "0" -> 0 [] c = "1" -> 1 [] c = "2" -> 2 [] c = "3" -> 3 [] c = "4" -> 4
      [] c = "5" -> 5 [] c = "6" -> 6 [] c = "7" -> 7 [] c = "8" -> 8 [] c = "9" -> 9

DigitChar(n) == <<"0", "1", "2", "3", "4", "5", "6", "7", "8", "9">>[n + 1]

\* strconv.Atoi on a string of digits
RECURSIVE Atoi(_)
Atoi(s) ==
    IF s = <<>> THEN 0
    ELSE 10 * Atoi(SubSeq(s, 1, Len(s) - 1)) + DigitValue(s[Len(s)])

\* the %d verb of fmt.Sprintf
RECURSIVE Itoa(_)
Itoa(n) == IF n < 10 THEN <<DigitChar(n)>> ELSE Itoa(n \div 10) \o <<DigitChar(n % 10)>>

\* strings.Index and strings.LastIndex, counted from 1; 0 when c does not occur
Index(s, c) ==
    IF \E i \in 1..Len(s) : s[i] = c
    THEN CHOOSE i \in 1..Len(s) : s[i] = c /\ \A j \in 1..(i-1) : s[j] # c
    ELSE 0

LastIndex(s, c) ==
    IF \E i \in 1..Len(s) : s[i] = c
    THEN CHOOSE i \in 1..Len(s) : s[i] = c /\ \A j \in (i+1)..Len(s) : s[j] # c
    ELSE 0

\* strings.Count
Count(s, c) == Cardinality({i \in 1..Len(s) : s[i] = c})

\* version.NewVersion of go-rpm-version: [epoch:]version[-release]
NewVersion(ver) ==
    LET ci == Index(ver, ":")
        epoch == IF ci = 0 THEN 0 ELSE Atoi(SubSeq(ver, 1, ci - 1))
        rest == IF ci = 0 THEN ver ELSE SubSeq(ver, ci + 1, Len(ver))
        di == Index(rest, "-")
    IN [epoch |-> epoch,
        version |-> IF di = 0 THEN rest ELSE SubSeq(rest, 1, di - 1),
        release |-> IF di = 0 THEN <<>> ELSE SubSeq(rest, di + 1, Len(rest))]

\* rpmvercmp on segments of digits: they compare as numbers
rpmvercmp(a, b) ==
    IF a = b THEN 0
    ELSE IF a = <<>> THEN -1
    ELSE IF b = <<>> THEN 1
    ELSE IF Atoi(a) < Atoi(b) THEN -1
    ELSE IF Atoi(a) > Atoi(b) THEN 1
    ELSE 0

\* Version.Compare: the epoch, then the version, then the release
Compare(v1, v2) ==
    IF v1.epoch < v2.epoch THEN -1
    ELSE IF v1.epoch > v2.epoch THEN 1
    ELSE IF rpmvercmp(v1.version, v2.version) # 0 THEN rpmvercmp(v1.version, v2.version)
    ELSE rpmvercmp(v1.release, v2.release)

LessThan(v1, v2) == Compare(v1, v2) < 0

\* Version.String: the epoch is printed only when it is positive
VersionString(v) ==
    (IF v.epoch > 0 THEN Itoa(v.epoch) \o <<":">> ELSE <<>>)
      \o v.version
      \o (IF v.release # <<>> THEN <<"-">> \o v.release ELSE <<>>)

\* utils.FormatVersion and utils.FormatSrcVersion: epoch:version-release
formatVersion(epoch, version, release) ==
    (IF epoch # 0 THEN Itoa(epoch) \o <<":">> ELSE <<>>)
      \o version
      \o (IF release # <<>> THEN <<"-">> \o release ELSE <<>>)

FormatVersion(pkg) == formatVersion(pkg.Epoch, pkg.Version, pkg.Release)

FormatSrcVersion(pkg) == formatVersion(pkg.SrcEpoch, pkg.SrcVersion, pkg.SrcRelease)

\* The normalisation that cuts the last component off whenever there is a dot.
normalizeOsVerAlways(v) ==
    IF Count(v, ".") > 0 THEN SubSeq(v, 1, LastIndex(v, ".") - 1) ELSE v

\* Detect, the normalisation of osVer: 1.0.20210127 becomes 1.0
normalizeOsVer(v) ==
    IF Count(v, ".") > 1 THEN SubSeq(v, 1, LastIndex(v, ".") - 1) ELSE v

\* vs.Get: the advisories of a source package in the bucket of an OS version
Get(src, ver, srcName) ==
    IF src[srcName].err THEN [err |-> TRUE, advisories |-> <<>>]
    ELSE IF ver = <<"2", ".", "0">> THEN src[srcName]
    ELSE [err |-> FALSE, advisories |-> <<>>]

\* Detect with "not greater than" in place of "less than"
RECURSIVE detectAdvisoriesLessEq(_, _)
detectAdvisoriesLessEq(pkg, advisories) ==
    IF advisories = <<>> THEN <<>>
    ELSE LET adv == Head(advisories)
             vuln == [VulnerabilityID |-> adv.VulnerabilityID,
                      PkgName |-> pkg.Name,
                      InstalledVersion |-> FormatVersion(pkg),
                      FixedVersion |-> <<>>]
             sourceVersion == NewVersion(FormatSrcVersion(pkg))
             fixedVersion == NewVersion(adv.FixedVersion)
             rest == detectAdvisoriesLessEq(pkg, Tail(advisories))
         IN IF adv.FixedVersion = <<>> THEN <<vuln>> \o rest
            ELSE IF ~LessThan(fixedVersion, sourceVersion)
                 THEN <<[vuln EXCEPT !.FixedVersion = VersionString(fixedVersion)]>> \o rest
                 ELSE rest

\* Detect with the binary version compared in place of the source version
RECURSIVE detectAdvisoriesBinary(_, _)
detectAdvisoriesBinary(pkg, advisories) ==
    IF advisories = <<>> THEN <<>>
    ELSE LET adv == Head(advisories)
             vuln == [VulnerabilityID |-> adv.VulnerabilityID,
                      PkgName |-> pkg.Name,
                      InstalledVersion |-> FormatVersion(pkg),
                      FixedVersion |-> <<>>]
             binaryVersion == NewVersion(FormatVersion(pkg))
             fixedVersion == NewVersion(adv.FixedVersion)
             rest == detectAdvisoriesBinary(pkg, Tail(advisories))
         IN IF adv.FixedVersion = <<>> THEN <<vuln>> \o rest
            ELSE IF LessThan(binaryVersion, fixedVersion)
                 THEN <<[vuln EXCEPT !.FixedVersion = VersionString(fixedVersion)]>> \o rest
                 ELSE rest

\* Detect, the loop over the advisories of one package
RECURSIVE detectAdvisories(_, _)
detectAdvisories(pkg, advisories) ==
    IF advisories = <<>> THEN <<>>
    ELSE LET adv == Head(advisories)
             vuln == [VulnerabilityID |-> adv.VulnerabilityID,
                      PkgName |-> pkg.Name,
                      InstalledVersion |-> FormatVersion(pkg),
                      FixedVersion |-> <<>>]
             sourceVersion == NewVersion(FormatSrcVersion(pkg))
             fixedVersion == NewVersion(adv.FixedVersion)
             rest == detectAdvisories(pkg, Tail(advisories))
         IN IF adv.FixedVersion = <<>> THEN <<vuln>> \o rest
            ELSE IF LessThan(sourceVersion, fixedVersion)
                 THEN <<[vuln EXCEPT !.FixedVersion = VersionString(fixedVersion)]>> \o rest
                 ELSE rest

\* Detect that returns, with the error of vs.Get, the vulnerabilities found so far.
RECURSIVE detectPkgsKeep(_, _, _)
detectPkgsKeep(src, ver, ps) ==
    IF ps = <<>> THEN [vulns |-> <<>>, err |-> ""]
    ELSE LET pkg == Head(ps)
             got == Get(src, ver, pkg.SrcName)
             rest == detectPkgsKeep(src, ver, Tail(ps))
         IN IF got.err THEN [vulns |-> <<>>, err |-> "failed to get CBL-Mariner advisories"]
            ELSE [vulns |-> detectAdvisories(pkg, got.advisories) \o rest.vulns,
                  err |-> rest.err]

\* Detect, the loop over the packages: the vulnerabilities, or the error of vs.Get
RECURSIVE detectPkgs(_, _, _)
detectPkgs(src, ver, ps) ==
    IF ps = <<>> THEN [vulns |-> <<>>, err |-> ""]
    ELSE LET pkg == Head(ps)
             got == Get(src, ver, pkg.SrcName)
             rest == detectPkgs(src, ver, Tail(ps))
         IN IF got.err THEN [vulns |-> <<>>, err |-> "failed to get CBL-Mariner advisories"]
            ELSE IF rest.err # "" THEN rest
            ELSE [vulns |-> detectAdvisories(pkg, got.advisories) \o rest.vulns, err |-> ""]

\* The inputs of Detect
SrcNameSet == {"srcA", "srcB"}

PkgVersionSet ==
    {[Epoch |-> 0, Version |-> <<"2">>, Release |-> <<"1">>],
     [Epoch |-> 0, Version |-> <<"1", "0">>, Release |-> <<"1">>],
     [Epoch |-> 1, Version |-> <<"2">>, Release |-> <<"1">>]}

PackageSet ==
    {[Name |-> "bin", SrcName |-> n,
      Epoch |-> b.Epoch, Version |-> b.Version, Release |-> b.Release,
      SrcEpoch |-> v.Epoch, SrcVersion |-> v.Version, SrcRelease |-> v.Release] :
        n \in SrcNameSet, b \in PkgVersionSet, v \in PkgVersionSet}

FixedVersionSet ==
    {<<>>, <<"2", "-", "1">>, <<"1", "0", "-", "1">>, <<"0", ":", "1", "0", "-", "1">>,
     <<"1", ":", "2", "-", "1">>}

Advisory(id, fixed) == [VulnerabilityID |-> id, FixedVersion |-> fixed]

AdvisoriesSet ==
    {<<>>} \cup {<<Advisory("CVE-1", f)>> : f \in FixedVersionSet}
           \cup {<<Advisory("CVE-1", <<>>), Advisory("CVE-2", <<"1", "0", "-", "1">>)>>}

VulnSrcSet ==
    {[n \in SrcNameSet |->
        IF n = "srcA" THEN [err |-> FALSE, advisories |-> a]
        ELSE [err |-> e, advisories |-> <<>>]] : a \in AdvisoriesSet, e \in BOOLEAN}

OsVerSet ==
    {<<"2">>, <<"2", ".", "0">>, <<"2", ".", "0", ".", "20240101">>}

DetectInit ==
    /\ osVer \in OsVerSet
    /\ pkgs \in SeqsUpTo(PackageSet, MaxPkgs)
    /\ vs \in VulnSrcSet
    /\ vulns = <<>>
    /\ detectErr = ""
    /\ detectPc = "call"

\* Scanner.Detect
Detect ==
    /\ detectPc = "call"
    /\ LET res == detectPkgs(vs, normalizeOsVer(osVer), pkgs)
       IN /\ vulns' = res.vulns
          /\ detectErr' = res.err
    /\ detectPc' = "done"
    /\ UNCHANGED <<osVer, pkgs, vs>>
    /\ UNCHANGED notDetectVars

DetectNext == Detect

InitDetect ==
    DetectInit /\ InspectIdle /\ FilterIdle /\ IgnoreIdle /\ BaseIdle /\ KeyIdle /\ OspkgIdle /\ TokenIdle /\ LocalIdle /\ LayerIdle /\ HistoryIdle /\ TerraformIdle

SpecDetect == InitDetect /\ [][DetectNext]_vars

\* ------------------------------------------------------------------------
\* Properties of the CBL-Mariner detector
\* ------------------------------------------------------------------------
\* The order of RPM versions on epoch, version and release taken as numbers.
TripleLess(e1, v1, r1, e2, v2, r2) ==
    \/ e1 < e2
    \/ e1 = e2 /\ v1 < v2
    \/ e1 = e2 /\ v1 = v2 /\ r1 < r2

\* The source version of the package is below the fixed version of the advisory.
SrcBelow(pkg, fixed) ==
    LET f == NewVersion(fixed)
    IN TripleLess(pkg.SrcEpoch, Atoi(pkg.SrcVersion), Atoi(pkg.SrcRelease),
                  f.epoch, Atoi(f.version), Atoi(f.release))

\* The advisories the source returns for package i.
AdvisoriesOf(i) == Get(vs, normalizeOsVer(osVer), pkgs[i].SrcName).advisories

\* The pairs of a package and an advisory returned for it.
Pairs == UNION {{<<i, j>> : j \in 1..Len(AdvisoriesOf(i))} : i \in 1..Len(pkgs)}

ShouldEmit(i, j) ==
    \/ AdvisoriesOf(i)[j].FixedVersion = <<>>
    \/ SrcBelow(pkgs[i], AdvisoriesOf(i)[j].FixedVersion)

\* vuln is the record of package i and advisory j: unpatched for an empty
\* fixedVersion, else with a FixedVersion that is the advisory's under the comparator.
RecordOf(vuln, i, j) ==
    LET adv == AdvisoriesOf(i)[j]
    IN /\ vuln.VulnerabilityID = adv.VulnerabilityID
       /\ vuln.PkgName = pkgs[i].Name
       /\ vuln.InstalledVersion = FormatVersion(pkgs[i])
       /\ IF adv.FixedVersion = <<>> THEN vuln.FixedVersion = <<>>
          ELSE /\ vuln.FixedVersion # <<>>
               /\ Compare(NewVersion(vuln.FixedVersion), NewVersion(adv.FixedVersion)) = 0

Detected == detectPc = "done" /\ detectErr = ""

\* C4: Detect emits one vulnerability for each pair of a package and an advisory
\* whose fixedVersion is empty (with an empty FixedVersion) or above the package's
\* source version under the RPM comparator (with that FixedVersion), and none for
\* any other pair.
C4_EmitsExactlyBelowFixed ==
    Detected =>
        /\ Len(vulns) = Cardinality({p \in Pairs : ShouldEmit(p[1], p[2])})
        /\ \A p \in Pairs :
              ShouldEmit(p[1], p[2]) =>
                  \E k \in 1..Len(vulns) : RecordOf(vulns[k], p[1], p[2])
        /\ \A k \in 1..Len(vulns) :
              \E p \in Pairs : ShouldEmit(p[1], p[2]) /\ RecordOf(vulns[k], p[1], p[2])

\* C4 witness: Detect has returned an unpatched and a patched vulnerability and has
\* left out an advisory whose fixedVersion equals the installed source version.
C4_Witness ==
    /\ Detected
    /\ \E k \in 1..Len(vulns) : vulns[k].FixedVersion = <<>>
    /\ \E k \in 1..Len(vulns) : vulns[k].FixedVersion # <<>>
    /\ \E p \in Pairs :
          /\ AdvisoriesOf(p[1])[p[2]].FixedVersion # <<>>
          /\ Compare(NewVersion(FormatSrcVersion(pkgs[p[1]])),
                     NewVersion(AdvisoriesOf(p[1])[p[2]].FixedVersion)) = 0

\* C5 as stated: every returned vulnerability with a non-empty FixedVersion has its
\* reported InstalledVersion below that FixedVersion under the RPM comparator.
C5_InstalledBelowFixed ==
    Detected =>
        \A k \in 1..Len(vulns) :
            vulns[k].FixedVersion # <<>> =>
                LessThan(NewVersion(vulns[k].InstalledVersion),
                         NewVersion(vulns[k].FixedVersion))

\* C5 amended: every returned vulnerability with a non-empty FixedVersion belongs
\* to a package whose source version is below that FixedVersion under the RPM
\* comparator; its reported InstalledVersion is below it too when the package's
\* binary version equals its source version.
C5_SourceBelowFixed ==
    Detected =>
        \A k \in 1..Len(vulns) :
            vulns[k].FixedVersion # <<>> =>
                \E i \in 1..Len(pkgs) :
                    /\ pkgs[i].Name = vulns[k].PkgName
                    /\ FormatVersion(pkgs[i]) = vulns[k].InstalledVersion
                    /\ SrcBelow(pkgs[i], vulns[k].FixedVersion)
                    /\ FormatVersion(pkgs[i]) = FormatSrcVersion(pkgs[i]) =>
                          LessThan(NewVersion(vulns[k].InstalledVersion),
                                   NewVersion(vulns[k].FixedVersion))

\* C5 witness: a patched vulnerability has been returned for a package whose
\* binary version differs from its source version.
C5_Witness ==
    /\ Detected
    /\ Len(pkgs) = 1
    /\ FormatVersion(pkgs[1]) # FormatSrcVersion(pkgs[1])
    /\ \E k \in 1..Len(vulns) : vulns[k].FixedVersion # <<>>

\* The dot-separated components of a version string.
RECURSIVE Components(_)
Components(v) ==
    IF Index(v, ".") = 0 THEN <<v>>
    ELSE <<SubSeq(v, 1, Index(v, ".") - 1)>>
            \o Components(SubSeq(v, Index(v, ".") + 1, Len(v)))

\* Components joined with dots again.
RECURSIVE JoinDots(_)
JoinDots(cs) ==
    IF Len(cs) = 1 THEN cs[1] ELSE cs[1] \o <<".">> \o JoinDots(Tail(cs))

\* The version the claim has advisories looked up under.
LookupVersion(v) ==
    LET cs == Components(v)
    IN IF Len(cs) > 2 THEN JoinDots(SubSeq(cs, 1, Len(cs) - 1)) ELSE v

\* The findings of one package from the advisories the source holds for its source
\* name under a version.
FindingsUnder(ver, pkg) ==
    detectAdvisories(pkg, Get(vs, ver, pkg.SrcName).advisories)

RECURSIVE FindingsOfAll(_, _)
FindingsOfAll(ver, ps) ==
    IF ps = <<>> THEN <<>> ELSE FindingsUnder(ver, Head(ps)) \o FindingsOfAll(ver, Tail(ps))

\* C21: Detect returns the findings of the advisories held under osVer without its
\* last component when osVer has more than two dot-separated components, and under
\* osVer itself otherwise; the advisories are those of each package's source name,
\* and each finding carries the package's binary name.
C21_LookupVersionAndSourceName ==
    Detected =>
        /\ vulns = FindingsOfAll(LookupVersion(osVer), pkgs)
        /\ \A k \in 1..Len(vulns) :
              \E i \in 1..Len(pkgs) :
                  /\ vulns[k].PkgName = pkgs[i].Name
                  /\ vulns[k].PkgName # pkgs[i].SrcName
                  /\ \E n \in 1..Len(vs[pkgs[i].SrcName].advisories) :
                        vs[pkgs[i].SrcName].advisories[n].VulnerabilityID
                            = vulns[k].VulnerabilityID

\* Detect was called with a three-component osVer and returned a finding from the
\* bucket of its first two components.
C21_Witness ==
    /\ Detected
    /\ Len(Components(osVer)) = 3
    /\ LookupVersion(osVer) = <<"2", ".", "0">>
    /\ vulns # <<>>
    /\ vulns[1].PkgName = "bin"

\* ======================================================================
\* The result filter: FilterResult and the filters it calls.
\* ======================================================================
\* A string that the filter formats or compares is a sequence of characters;
\* a token such as "CVE-A" stands for a run of characters holding no "/" and
\* is ordered among the tokens as its characters order it.
CharCode(c) ==
    CASE c = "." -> 46 [] c = "/" -> 47
      [] c = "0" -> 48 [] c = "1" -> 49 [] c = "2" -> 50 [] c = "9" -> 57
      [] c = "AVD-1" -> 60 [] c = "AVD-2" -> 61
      [] c = "CVE-A" -> 65 [] c = "CVE-B" -> 66
      [] c = "M1" -> 77 [] c = "M2" -> 78
      [] c = "S1" -> 83 [] c = "S2" -> 84
      [] c = "a" -> 97 [] c = "b" -> 98 [] c = "c" -> 99
      [] OTHER -> 120

\* Go's < on strings: byte-wise, a proper prefix is smaller.
RECURSIVE StringLess(_, _)
StringLess(a, b) ==
    IF b = <<>> THEN FALSE
    ELSE IF a = <<>> THEN TRUE
    ELSE IF CharCode(Head(a)) # CharCode(Head(b)) THEN CharCode(Head(a)) < CharCode(Head(b))
    ELSE StringLess(Tail(a), Tail(b))

Contains(s, e) == \E i \in 1..Len(s) : s[i] = e

\* fmt.Sprintf("%s/%s/%s/%s", ...) of filterVulnerabilities.
vulnKey(vuln) ==
    vuln.VulnerabilityID \o <<"/">> \o vuln.PkgName \o <<"/">>
        \o vuln.InstalledVersion \o <<"/">> \o vuln.PkgPath

shouldOverwrite(old, new) == StringLess(old.FixedVersion, new.FixedVersion)

\* ---- the ignore file ----
\* A line of the ignore file is a sequence of characters: " " is white
\* space, "#" the comment sign, "exp:" the four characters of the expiry
\* prefix, and any other element a run of characters that are none of
\* these (an ID, a date).
RECURSIVE TrimLeft(_)
TrimLeft(line) ==
    IF line # <<>> /\ Head(line) = " " THEN TrimLeft(Tail(line)) ELSE line

RECURSIVE TrimRight(_)
TrimRight(line) ==
    IF line # <<>> /\ line[Len(line)] = " "
    THEN TrimRight(SubSeq(line, 1, Len(line) - 1))
    ELSE line

TrimSpace(line) == TrimRight(TrimLeft(line))

HasPrefix(str, prefix) == str # <<>> /\ Head(str) = prefix

TrimPrefix(str, prefix) == IF HasPrefix(str, prefix) THEN Tail(str) ELSE str

\* strings.Fields: the maximal runs of characters that are no white space.
RECURSIVE FieldsFrom(_, _, _)
FieldsFrom(fields, field, line) ==
    IF line = <<>>
    THEN IF field = <<>> THEN fields ELSE Append(fields, field)
    ELSE IF Head(line) = " "
    THEN FieldsFrom(IF field = <<>> THEN fields ELSE Append(fields, field), <<>>, Tail(line))
    ELSE FieldsFrom(fields, Append(field, Head(line)), Tail(line))

Fields(line) == FieldsFrom(<<>>, <<>>, line)

ZeroTime == Time(1, 1, 1, 0)

IsZero(t) == t = ZeroTime

\* t.Before(u): t is an earlier instant than u.
Before(t, u) ==
    \E i \in 1..4 : t[i] < u[i] /\ \A j \in 1..(i - 1) : t[j] = u[j]

\* time.Parse("2006-01-02", str): midnight UTC of the date, or an error
\* when str is no date in that layout (a month 13, no date at all).
Parse(str) ==
    CASE str = <<"0001-01-01">> -> [time |-> Time(1, 1, 1, 0), err |-> FALSE]
      [] str = <<"2024-01-01">> -> [time |-> Time(2024, 1, 1, 0), err |-> FALSE]
      [] str = <<"2024-01-02">> -> [time |-> Time(2024, 1, 2, 0), err |-> FALSE]
      [] OTHER -> [time |-> ZeroTime, err |-> TRUE]

RECURSIVE getExpirationDate(_)
getExpirationDate(fields) ==
    IF fields = <<>> THEN [time |-> ZeroTime, err |-> FALSE]
    ELSE IF HasPrefix(Head(fields), "exp:") THEN Parse(TrimPrefix(Head(fields), "exp:"))
    ELSE getExpirationDate(Tail(fields))

\* The body of the scanner loop of getIgnoredIDs for one line.
scanLine(ids, text, clock) ==
    LET line == TrimSpace(text)
        fields == Fields(line)
        exp == getExpirationDate(fields)
    IN IF HasPrefix(line, "#") \/ line = <<>> THEN ids
       ELSE IF Len(fields) > 1 /\ exp.err THEN ids
       ELSE IF Len(fields) > 1 /\ ~IsZero(exp.time) /\ Before(exp.time, clock) THEN ids
       ELSE Append(ids, fields[1])

RECURSIVE scanLines(_, _, _)
scanLines(ids, lines, clock) ==
    IF lines = <<>> THEN ids
    ELSE scanLines(scanLine(ids, Head(lines), clock), Tail(lines), clock)

\* The ignore files of the filter and what they hold; a file that cannot be
\* opened gives no IDs.
IgnoreFileSet == {"", ".trivyignore"}

TrivyIgnoreLines == << <<"CVE-B">>, <<"M1">>, <<"AVD-2">>, <<"S1">> >>

getIgnoredIDs(ignoreFile) ==
    IF ignoreFile = ".trivyignore"
    THEN scanLines(<<>>, TrivyIgnoreLines, now)
    ELSE <<>>

\* The loop over the severities of filterVulnerabilities for one (copied)
\* vulnerability: every "continue" goes on to the next severity, the
\* assignment to the map breaks.
RECURSIVE vulnSeverityLoop(_, _, _, _, _)
vulnSeverityLoop(uniqVulns, vuln, severities, ignoreUnfixed, ignoredIDs) ==
    IF severities = <<>> THEN uniqVulns
    ELSE IF Head(severities) # vuln.Severity
         THEN vulnSeverityLoop(uniqVulns, vuln, Tail(severities), ignoreUnfixed, ignoredIDs)
    ELSE IF ignoreUnfixed /\ vuln.FixedVersion = <<>>
         THEN vulnSeverityLoop(uniqVulns, vuln, Tail(severities), ignoreUnfixed, ignoredIDs)
    ELSE IF Contains(ignoredIDs, vuln.VulnerabilityID)
         THEN vulnSeverityLoop(uniqVulns, vuln, Tail(severities), ignoreUnfixed, ignoredIDs)
    ELSE IF /\ vulnKey(vuln) \in DOMAIN uniqVulns
            /\ ~shouldOverwrite(uniqVulns[vulnKey(vuln)], vuln)
         THEN vulnSeverityLoop(uniqVulns, vuln, Tail(severities), ignoreUnfixed, ignoredIDs)
    ELSE Put(uniqVulns, vulnKey(vuln), vuln)

defaultSeverity(vuln) ==
    IF vuln.Severity = "" THEN [vuln EXCEPT !.Severity = "UNKNOWN"] ELSE vuln

\* The map uniqVulns at the end of the loop over the vulnerabilities.
RECURSIVE uniqVulnsOf(_, _, _, _, _)
uniqVulnsOf(uniqVulns, vulnerabilities, severities, ignoreUnfixed, ignoredIDs) ==
    IF vulnerabilities = <<>> THEN uniqVulns
    ELSE uniqVulnsOf(
             vulnSeverityLoop(uniqVulns, defaultSeverity(Head(vulnerabilities)), severities,
                              ignoreUnfixed, ignoredIDs),
             Tail(vulnerabilities), severities, ignoreUnfixed, ignoredIDs)

\* maps.Values: the values of the map in an order the runtime chooses.
Values(m) ==
    {[i \in 1..Cardinality(DOMAIN m) |-> m[order[i]]] :
        order \in {o \in [1..Cardinality(DOMAIN m) -> DOMAIN m] :
                      \A i, j \in 1..Cardinality(DOMAIN m) : i # j => o[i] # o[j]}}

\* The slices filterVulnerabilities can return.
filterVulnerabilities(vulnerabilities, severities, ignoreUnfixed, ignoredIDs) ==
    Values(uniqVulnsOf(EmptyMap, vulnerabilities, severities, ignoreUnfixed, ignoredIDs))

\* ---- filterVulnerabilities on its own ----
SeveritiesSet == {<<"HIGH">>, <<"UNKNOWN", "HIGH">>, <<"HIGH", "HIGH">>}

\* Two packages whose names, versions and paths differ and whose keys are
\* the same string, "a/1/b/c" after the ID.
PkgTripleSet ==
    {[PkgName |-> <<"a">>, InstalledVersion |-> <<"1">>, PkgPath |-> <<"b", "/", "c">>],
     [PkgName |-> <<"a", "/", "1">>, InstalledVersion |-> <<"b">>, PkgPath |-> <<"c">>]}

\* "1.9" is greater than "1.10" as a string and smaller as a version.
FixedStringSet == {<<>>, <<"1", ".", "9">>, <<"1", ".", "1", "0">>}

DetectedVulnerabilitySet ==
    {[VulnerabilityID |-> id, PkgName |-> t.PkgName,
      InstalledVersion |-> t.InstalledVersion, PkgPath |-> t.PkgPath,
      FixedVersion |-> f, Severity |-> sev] :
        id \in {<<"CVE-A">>, <<"CVE-B">>}, t \in PkgTripleSet,
        f \in FixedStringSet, sev \in {"", "HIGH"}}

FilterVulnsInit ==
    /\ \E vl \in SeqsUpTo(DetectedVulnerabilitySet, MaxVulns) :
           result = [EmptyResult EXCEPT !.Vulnerabilities = vl]
    /\ \E sevs \in SeveritiesSet, unfixed \in BOOLEAN, file \in IgnoreFileSet :
           opt = [Severities |-> sevs, IgnoreUnfixed |-> unfixed,
                  IncludeNonFailures |-> FALSE, IgnoreFile |-> file,
                  PolicyFile |-> "", IgnoreLicenses |-> <<>>]
    /\ prev = EmptyResult
    /\ filterErr = ""
    /\ passes = 0
    /\ outVulns = <<>>

FilterVulnerabilities ==
    /\ passes = 0
    /\ outVulns' \in filterVulnerabilities(result.Vulnerabilities, opt.Severities,
                                           opt.IgnoreUnfixed, getIgnoredIDs(opt.IgnoreFile))
    /\ passes' = 1
    /\ UNCHANGED <<result, opt, prev, filterErr>>
    /\ UNCHANGED notFilterVars

FilterVulnsNext == FilterVulnerabilities

InitFilterVulns ==
    FilterVulnsInit /\ InspectIdle /\ DetectIdle /\ IgnoreIdle /\ BaseIdle /\ KeyIdle /\ OspkgIdle /\ TokenIdle /\ LocalIdle /\ LayerIdle /\ HistoryIdle /\ TerraformIdle

SpecFilterVulns == InitFilterVulns /\ [][FilterVulnsNext]_vars

\* The (id, pkgName, installedVersion, pkgPath) of a vulnerability.
VulnTuple(vuln) ==
    <<vuln.VulnerabilityID, vuln.PkgName, vuln.InstalledVersion, vuln.PkgPath>>

\* The vulnerability passes the severity, ignore-unfixed and ignore-set filters.
VulnPasses(vuln) ==
    /\ Contains(opt.Severities, IF vuln.Severity = "" THEN "UNKNOWN" ELSE vuln.Severity)
    /\ ~(opt.IgnoreUnfixed /\ vuln.FixedVersion = <<>>)
    /\ ~Contains(getIgnoredIDs(opt.IgnoreFile), vuln.VulnerabilityID)

PassingInputs == {i \in 1..Len(result.Vulnerabilities) : VulnPasses(result.Vulnerabilities[i])}

\* C6: after filterVulnerabilities no two retained vulnerabilities share one
\* (id, pkgName, installedVersion, pkgPath), and for every input record that
\* passes the filters a record with the same four fields is retained whose
\* fixedVersion string is the greatest among the passing input records with
\* these four fields.
C6_DedupByTuple ==
    passes = 1 =>
        /\ \A j, k \in 1..Len(outVulns) :
               j # k => VulnTuple(outVulns[j]) # VulnTuple(outVulns[k])
        /\ \A i \in PassingInputs :
               \E j \in 1..Len(outVulns) :
                   /\ VulnTuple(outVulns[j]) = VulnTuple(result.Vulnerabilities[i])
                   /\ \A i2 \in PassingInputs :
                          VulnTuple(result.Vulnerabilities[i2]) = VulnTuple(result.Vulnerabilities[i])
                              => ~StringLess(outVulns[j].FixedVersion,
                                             result.Vulnerabilities[i2].FixedVersion)

\* ---- misconfigurations, secrets, licenses ----
NilSummary == [nil |-> TRUE, Failures |-> 0, Successes |-> 0, Exceptions |-> 0]

NewSummary == [nil |-> FALSE, Failures |-> 0, Successes |-> 0, Exceptions |-> 0]

summarize(misconfStatus, summary) ==
    CASE misconfStatus = "FAIL" -> [summary EXCEPT !.Failures = @ + 1]
      [] misconfStatus = "PASS" -> [summary EXCEPT !.Successes = @ + 1]
      [] misconfStatus = "EXCEPTION" -> [summary EXCEPT !.Exceptions = @ + 1]
      [] OTHER -> summary

Empty(summary) ==
    summary.Failures = 0 /\ summary.Successes = 0 /\ summary.Exceptions = 0

RECURSIVE misconfSeverityLoopAll(_, _, _, _, _)
misconfSeverityLoopAll(acc, misconf, severities, includeNonFailures, ignoredIDs) ==
    IF severities = <<>> THEN acc
    ELSE IF Head(severities) # misconf.Severity
         THEN misconfSeverityLoopAll(acc, misconf, Tail(severities), includeNonFailures, ignoredIDs)
    ELSE IF Contains(ignoredIDs, misconf.ID) \/ Contains(ignoredIDs, misconf.AVDID)
         THEN misconfSeverityLoopAll(acc, misconf, Tail(severities), includeNonFailures, ignoredIDs)
    ELSE [summary |-> summarize(misconf.Status, acc.summary),
          filtered |-> Append(acc.filtered, misconf)]

\* The loop over the severities of filterMisconfigurations for one
\* misconfiguration: both "continue" statements go on to the next severity,
\* the second one after the status has been counted; the append breaks.
RECURSIVE misconfSeverityLoop(_, _, _, _, _)
misconfSeverityLoop(acc, misconf, severities, includeNonFailures, ignoredIDs) ==
    IF severities = <<>> THEN acc
    ELSE IF Head(severities) # misconf.Severity
         THEN misconfSeverityLoop(acc, misconf, Tail(severities), includeNonFailures, ignoredIDs)
    ELSE IF Contains(ignoredIDs, misconf.ID) \/ Contains(ignoredIDs, misconf.AVDID)
         THEN misconfSeverityLoop(acc, misconf, Tail(severities), includeNonFailures, ignoredIDs)
    ELSE IF misconf.Status # "FAIL" /\ ~includeNonFailures
         THEN misconfSeverityLoop([acc EXCEPT !.summary = summarize(misconf.Status, @)],
                                  misconf, Tail(severities), includeNonFailures, ignoredIDs)
    ELSE [summary |-> summarize(misconf.Status, acc.summary),
          filtered |-> Append(acc.filtered, misconf)]

RECURSIVE misconfLoop(_, _, _, _, _)
misconfLoop(acc, misconfs, severities, includeNonFailures, ignoredIDs) ==
    IF misconfs = <<>> THEN acc
    ELSE misconfLoop(
             misconfSeverityLoop(acc, Head(misconfs), severities, includeNonFailures, ignoredIDs),
             Tail(misconfs), severities, includeNonFailures, ignoredIDs)

filterMisconfigurations(misconfs, severities, includeNonFailures, ignoredIDs) ==
    LET acc == misconfLoop([summary |-> NewSummary, filtered |-> <<>>],
                           misconfs, severities, includeNonFailures, ignoredIDs)
    IN IF Empty(acc.summary)
       THEN [summary |-> NilSummary, filtered |-> <<>>]
       ELSE acc

RECURSIVE secretSeverityLoop(_, _, _, _)
secretSeverityLoop(filtered, secret, severities, ignoredIDs) ==
    IF severities = <<>> THEN filtered
    ELSE IF Head(severities) # secret.Severity
         THEN secretSeverityLoop(filtered, secret, Tail(severities), ignoredIDs)
    ELSE IF Contains(ignoredIDs, secret.RuleID)
         THEN secretSeverityLoop(filtered, secret, Tail(severities), ignoredIDs)
    ELSE Append(filtered, secret)

RECURSIVE secretLoop(_, _, _, _)
secretLoop(filtered, secrets, severities, ignoredIDs) ==
    IF secrets = <<>> THEN filtered
    ELSE secretLoop(secretSeverityLoop(filtered, Head(secrets), severities, ignoredIDs),
                    Tail(secrets), severities, ignoredIDs)

\* filterSecrets by severity alone.
filterSecretsBySeverity(secrets, severities, ignoredIDs) ==
    SelectSeq(secrets, LAMBDA secret : Contains(severities, secret.Severity))

filterSecrets(secrets, severities, ignoredIDs) ==
    secretLoop(<<>>, secrets, severities, ignoredIDs)

filterLicenses(licenses, severities, ignoredLicenses) ==
    SelectSeq(licenses,
              LAMBDA l : ~Contains(ignoredLicenses, l.Name) /\ Contains(severities, l.Severity))

\* ---- the policy ----
\* The policy files of the model. Each stands for a Rego module whose rule
\* data.trivy.ignore is described at Eval.
PolicyFileSet ==
    {"", "ignore-all.rego", "ignore-low.rego", "number.rego", "missing.rego", "broken.rego"}

\* os.ReadFile and PrepareForEval on the policy file: the error, "" for none.
PrepareForEval(policyFile) ==
    CASE policyFile = "missing.rego" -> "unable to read the policy file"
      [] policyFile = "broken.rego" -> "unable to prepare for eval"
      [] OTHER -> ""

\* query.Eval on one finding: whether it fails, whether the result is
\* defined, whether its value is a boolean, and that boolean.
\*   ignore-all.rego   ignore = true
\*   ignore-low.rego   ignore { input.Severity == "LOW" }, false on any other
\*                     vulnerability, undefined on any other misconfiguration
\*   number.rego       ignore = 1 { input.Severity == "HIGH" }, undefined
\*                     otherwise, and a run-time error on an input whose
\*                     Status is "EXCEPTION"
IsMisconf(input) == "Status" \in DOMAIN input

EvalResult(failed, defined, isBool, value) ==
    [err |-> failed, defined |-> defined, isBool |-> isBool, value |-> value]

Eval(policyFile, input) ==
    CASE policyFile = "ignore-all.rego" -> EvalResult(FALSE, TRUE, TRUE, TRUE)
      [] policyFile = "ignore-low.rego" ->
            IF input.Severity = "LOW" THEN EvalResult(FALSE, TRUE, TRUE, TRUE)
            ELSE IF IsMisconf(input) THEN EvalResult(FALSE, FALSE, FALSE, FALSE)
            ELSE EvalResult(FALSE, TRUE, TRUE, FALSE)
      [] policyFile = "number.rego" ->
            IF IsMisconf(input) /\ input.Status = "EXCEPTION"
            THEN EvalResult(TRUE, FALSE, FALSE, FALSE)
            ELSE IF input.Severity = "HIGH"
            THEN EvalResult(FALSE, TRUE, FALSE, FALSE)
            ELSE EvalResult(FALSE, FALSE, FALSE, FALSE)
      [] OTHER -> EvalResult(FALSE, FALSE, FALSE, FALSE)

evaluateLenient(policyFile, input) ==
    LET results == Eval(policyFile, input)
    IN IF results.err THEN [ignored |-> FALSE, err |-> "unable to evaluate the policy"]
       ELSE IF ~results.defined THEN [ignored |-> FALSE, err |-> ""]
       ELSE IF ~results.isBool THEN [ignored |-> FALSE, err |-> ""]
       ELSE [ignored |-> results.value, err |-> ""]

\* results[0].Expressions[0].Value.(bool) fails on a value that is no boolean.
evaluate(policyFile, input) ==
    LET results == Eval(policyFile, input)
    IN IF results.err THEN [ignored |-> FALSE, err |-> "unable to evaluate the policy"]
       ELSE IF ~results.defined THEN [ignored |-> FALSE, err |-> ""]
       ELSE IF ~results.isBool
       THEN [ignored |-> FALSE, err |-> "the policy must return boolean"]
       ELSE [ignored |-> results.value, err |-> ""]

\* One of the two loops of applyPolicy: [filtered, err].
RECURSIVE policyLoop(_, _, _)
policyLoop(filtered, findings, policyFile) ==
    IF findings = <<>> THEN [filtered |-> filtered, err |-> ""]
    ELSE LET e == evaluate(policyFile, Head(findings))
         IN IF e.err # "" THEN [filtered |-> <<>>, err |-> e.err]
            ELSE IF e.ignored THEN policyLoop(filtered, Tail(findings), policyFile)
            ELSE policyLoop(Append(filtered, Head(findings)), Tail(findings), policyFile)

applyPolicy(vulnerabilities, misconfs, policyFile) ==
    IF PrepareForEval(policyFile) # ""
    THEN [vulns |-> <<>>, misconfs |-> <<>>, err |-> PrepareForEval(policyFile)]
    ELSE LET v == policyLoop(<<>>, vulnerabilities, policyFile)
             m == policyLoop(<<>>, misconfs, policyFile)
         IN IF v.err # "" THEN [vulns |-> <<>>, misconfs |-> <<>>, err |-> v.err]
            ELSE IF m.err # "" THEN [vulns |-> <<>>, misconfs |-> <<>>, err |-> m.err]
            ELSE [vulns |-> v.filtered, misconfs |-> m.filtered, err |-> ""]

\* ---- the order of the vulnerabilities ----
SeverityRank(sev) ==
    CASE sev = "UNKNOWN" -> 0 [] sev = "LOW" -> 1 [] sev = "MEDIUM" -> 2
      [] sev = "HIGH" -> 3 [] sev = "CRITICAL" -> 4 [] OTHER -> 0

\* BySeverity.Less: by severity descending, ties broken by the ID.
Less(a, b) ==
    \/ SeverityRank(a.Severity) > SeverityRank(b.Severity)
    \/ /\ SeverityRank(a.Severity) = SeverityRank(b.Severity)
       /\ StringLess(a.VulnerabilityID, b.VulnerabilityID)

\* sort.Sort is not stable: it can leave the slice in any order of its
\* elements in which no element is Less than an earlier one.
Sort(s) ==
    {[i \in 1..Len(s) |-> s[order[i]]] :
        order \in {o \in [1..Len(s) -> 1..Len(s)] :
                      /\ \A i, j \in 1..Len(s) : i # j => o[i] # o[j]
                      /\ \A i, j \in 1..Len(s) : i < j => ~Less(s[o[j]], s[o[i]])}}

\* ---- FilterResult ----
MisconfIDSet ==
    {[ID |-> <<"M1">>, AVDID |-> <<"AVD-1">>], [ID |-> <<"M2">>, AVDID |-> <<"AVD-2">>],
     [ID |-> <<"M3">>, AVDID |-> <<"AVD-3">>]}

DetectedMisconfigurationSet ==
    {[ID |-> m.ID, AVDID |-> m.AVDID, Severity |-> sev, Status |-> st] :
        m \in MisconfIDSet, sev \in {"HIGH"}, st \in {"FAIL", "PASS", "EXCEPTION"}}
    \cup {[ID |-> <<"M3">>, AVDID |-> <<"AVD-3">>, Severity |-> "LOW", Status |-> st] :
             st \in {"FAIL", "PASS", "EXCEPTION"}}

\* CVE-A is unfixed, CVE-B is fixed in version 2.
ResultVulnerabilitySet ==
    {[VulnerabilityID |-> id, PkgName |-> <<"a">>, InstalledVersion |-> <<"1">>,
      PkgPath |-> path, FixedVersion |-> IF id = <<"CVE-A">> THEN <<>> ELSE <<"2">>,
      Severity |-> sev] :
        id \in {<<"CVE-A">>, <<"CVE-B">>}, path \in {<<>>, <<"b">>}, sev \in {"HIGH", "LOW"}}

SecretFindingSet ==
    {[RuleID |-> <<"S1">>, Severity |-> "HIGH"], [RuleID |-> <<"S2">>, Severity |-> "HIGH"],
     [RuleID |-> <<"S2">>, Severity |-> "LOW"]}

DetectedLicenseSet ==
    {[Name |-> "MIT", Severity |-> "HIGH"], [Name |-> "GPL", Severity |-> "HIGH"],
     [Name |-> "MIT", Severity |-> "LOW"]}

ResultSeveritiesSet == {<<"HIGH">>, <<"LOW", "HIGH", "HIGH">>}

\* The results of at most MaxFindings findings.
ResultSet ==
    UNION {[Vulnerabilities : [1..n[1] -> ResultVulnerabilitySet],
            Misconfigurations : [1..n[2] -> DetectedMisconfigurationSet],
            MisconfSummary : {NilSummary},
            Secrets : [1..n[3] -> SecretFindingSet],
            Licenses : [1..n[4] -> DetectedLicenseSet]] :
               n \in {c \in [1..4 -> 0..MaxFindings] : c[1] + c[2] + c[3] + c[4] <= MaxFindings}}

\* The options; one that no finding of the result reads is left at its
\* zero value.
FilterOptionSet(r) ==
    [Severities : ResultSeveritiesSet,
     IgnoreUnfixed : IF r.Vulnerabilities = <<>> THEN {FALSE} ELSE BOOLEAN,
     IncludeNonFailures : IF r.Misconfigurations = <<>> THEN {FALSE} ELSE BOOLEAN,
     IgnoreFile : IF r.Vulnerabilities = <<>> /\ r.Misconfigurations = <<>> /\ r.Secrets = <<>>
                  THEN {""} ELSE IgnoreFileSet,
     PolicyFile : IF r.Vulnerabilities = <<>> /\ r.Misconfigurations = <<>>
                  THEN {""} ELSE PolicyFileSet,
     IgnoreLicenses : IF r.Licenses = <<>> THEN {<<>>} ELSE {<<>>, <<"GPL">>}]

FilterInit ==
    /\ result \in ResultSet
    /\ opt \in FilterOptionSet(result)
    /\ prev = EmptyResult
    /\ filterErr = ""
    /\ passes = 0
    /\ outVulns = <<>>

\* FilterResult that assigns the filtered vulnerabilities and misconfigurations
\* before it applies the policy.
FilterResultAssignFirst ==
    /\ passes < MaxPasses
    /\ filterErr = ""
    /\ LET ignoredIDs == getIgnoredIDs(opt.IgnoreFile)
           m == filterMisconfigurations(result.Misconfigurations, opt.Severities,
                                        opt.IncludeNonFailures, ignoredIDs)
           secrets == filterSecrets(result.Secrets, opt.Severities, ignoredIDs)
           licenses == filterLicenses(result.Licenses, opt.Severities, opt.IgnoreLicenses)
       IN \E filteredVulns \in filterVulnerabilities(result.Vulnerabilities, opt.Severities,
                                                     opt.IgnoreUnfixed, ignoredIDs) :
              LET p == IF opt.PolicyFile # ""
                       THEN applyPolicy(filteredVulns, m.filtered, opt.PolicyFile)
                       ELSE [vulns |-> filteredVulns, misconfs |-> m.filtered, err |-> ""]
              IN IF p.err # ""
                 THEN /\ result' = [Vulnerabilities |-> filteredVulns,
                                    Misconfigurations |-> m.filtered,
                                    MisconfSummary |-> m.summary,
                                    Secrets |-> secrets,
                                    Licenses |-> licenses]
                      /\ filterErr' = "failed to apply the policy"
                 ELSE /\ \E sorted \in Sort(p.vulns) :
                             result' = [Vulnerabilities |-> sorted,
                                        Misconfigurations |-> p.misconfs,
                                        MisconfSummary |-> m.summary,
                                        Secrets |-> secrets,
                                        Licenses |-> licenses]
                      /\ filterErr' = ""
    /\ prev' = result
    /\ passes' = passes + 1
    /\ UNCHANGED <<opt, outVulns>>
    /\ UNCHANGED notFilterVars

\* FilterResult on the result, with the options of the run. The secrets and
\* the licenses are assigned before the policy is applied; a policy error
\* returns before the other three fields are assigned.
FilterResult ==
    /\ passes < MaxPasses
    /\ filterErr = ""
    /\ LET ignoredIDs == getIgnoredIDs(opt.IgnoreFile)
           m == filterMisconfigurations(result.Misconfigurations, opt.Severities,
                                        opt.IncludeNonFailures, ignoredIDs)
           secrets == filterSecrets(result.Secrets, opt.Severities, ignoredIDs)
           licenses == filterLicenses(result.Licenses, opt.Severities, opt.IgnoreLicenses)
       IN \E filteredVulns \in filterVulnerabilities(result.Vulnerabilities, opt.Severities,
                                                     opt.IgnoreUnfixed, ignoredIDs) :
              LET p == IF opt.PolicyFile # ""
                       THEN applyPolicy(filteredVulns, m.filtered, opt.PolicyFile)
                       ELSE [vulns |-> filteredVulns, misconfs |-> m.filtered, err |-> ""]
              IN IF p.err # ""
                 THEN /\ result' = [result EXCEPT !.Secrets = secrets, !.Licenses = licenses]
                      /\ filterErr' = "failed to apply the policy"
                 ELSE /\ \E sorted \in Sort(p.vulns) :
                             result' = [Vulnerabilities |-> sorted,
                                        Misconfigurations |-> p.misconfs,
                                        MisconfSummary |-> m.summary,
                                        Secrets |-> secrets,
                                        Licenses |-> licenses]
                      /\ filterErr' = ""
    /\ prev' = result
    /\ passes' = passes + 1
    /\ UNCHANGED <<opt, outVulns>>
    /\ UNCHANGED notFilterVars

FilterNext == FilterResult

InitFilterResult ==
    FilterInit /\ InspectIdle /\ DetectIdle /\ IgnoreIdle /\ BaseIdle /\ KeyIdle /\ OspkgIdle /\ TokenIdle /\ LocalIdle /\ LayerIdle /\ HistoryIdle /\ TerraformIdle

SpecFilterResult == InitFilterResult /\ [][FilterNext]_vars

\* ---- properties of FilterResult ----
\* The last call of FilterResult returned nil; prev is the result it was given.
Filtered == passes >= 1 /\ filterErr = ""

SeverityMatches(finding) == Contains(opt.Severities, finding.Severity)

MisconfIgnored(misconf) ==
    \/ Contains(getIgnoredIDs(opt.IgnoreFile), misconf.ID)
    \/ Contains(getIgnoredIDs(opt.IgnoreFile), misconf.AVDID)

\* The policy of the run gives true, gives no boolean or fails, on the finding.
PolicyDrops(finding) ==
    /\ opt.PolicyFile # ""
    /\ Eval(opt.PolicyFile, finding).defined
    /\ Eval(opt.PolicyFile, finding).isBool
    /\ Eval(opt.PolicyFile, finding).value

PolicyRejects(finding) ==
    \/ Eval(opt.PolicyFile, finding).err
    \/ Eval(opt.PolicyFile, finding).defined /\ ~Eval(opt.PolicyFile, finding).isBool

MisconfPresent(misconf) ==
    \E k \in 1..Len(result.Misconfigurations) : result.Misconfigurations[k] = misconf

NonFailuresOnlyIncluded ==
    \A k \in 1..Len(result.Misconfigurations) :
        result.Misconfigurations[k].Status # "FAIL" => opt.IncludeNonFailures

\* C7: a second FilterResult with the same options on the result of a first
\* one leaves Vulnerabilities, Misconfigurations, MisconfSummary, Secrets and
\* Licenses as the first one left them.
C7_SecondPassNoOp ==
    (passes >= 2 /\ filterErr = "") =>
        /\ result.Vulnerabilities = prev.Vulnerabilities
        /\ result.Misconfigurations = prev.Misconfigurations
        /\ result.MisconfSummary = prev.MisconfSummary
        /\ result.Secrets = prev.Secrets
        /\ result.Licenses = prev.Licenses

\* C8 as stated: after FilterResult every Failure of the input whose severity
\* is in the severity filter is in the filtered result, and a Passed or an
\* Exception is in it only when includeNonFailures is set.
C8_FailurePresent ==
    Filtered =>
        /\ \A i \in 1..Len(prev.Misconfigurations) :
               (/\ prev.Misconfigurations[i].Status = "FAIL"
                /\ SeverityMatches(prev.Misconfigurations[i]))
                   => MisconfPresent(prev.Misconfigurations[i])
        /\ NonFailuresOnlyIncluded

\* C8: after FilterResult every Failure of the input whose severity is in
\* the severity filter, whose ID and AVDID are not in the ignore set and that
\* the policy does not ignore is in the filtered result, and a Passed or an
\* Exception is in it only when includeNonFailures is set.
C8_FailurePresentUnlessIgnored ==
    Filtered =>
        /\ \A i \in 1..Len(prev.Misconfigurations) :
               (/\ prev.Misconfigurations[i].Status = "FAIL"
                /\ SeverityMatches(prev.Misconfigurations[i])
                /\ ~MisconfIgnored(prev.Misconfigurations[i])
                /\ ~PolicyDrops(prev.Misconfigurations[i]))
                   => MisconfPresent(prev.Misconfigurations[i])
        /\ NonFailuresOnlyIncluded

\* A Failure that an ignore file and a policy are given for and that neither
\* ignores is reported, next to a Passed that is left out.
C8_Witness ==
    /\ Filtered /\ passes = 1
    /\ opt.IgnoreFile # "" /\ opt.PolicyFile # "" /\ ~opt.IncludeNonFailures
    /\ Len(prev.Misconfigurations) = 2
    /\ prev.Misconfigurations[1].Status = "PASS"
    /\ SeverityMatches(prev.Misconfigurations[1])
    /\ ~MisconfIgnored(prev.Misconfigurations[1])
    /\ prev.Misconfigurations[2].Status = "FAIL"
    /\ result.Misconfigurations = <<prev.Misconfigurations[2]>>

Counted(misconfStatus) ==
    Cardinality({i \in 1..Len(prev.Misconfigurations) :
                    /\ prev.Misconfigurations[i].Status = misconfStatus
                    /\ SeverityMatches(prev.Misconfigurations[i])
                    /\ ~MisconfIgnored(prev.Misconfigurations[i])})

\* C9: whatever the severity list, the ignore set and includeNonFailures,
\* each count of the summary is the number of input misconfigurations of
\* that status that pass the severity and ignore filters, each counted once,
\* and non-failures are in the filtered list only when includeNonFailures is
\* set.
C9_SummaryCounts ==
    Filtered =>
        /\ result.MisconfSummary.Failures = Counted("FAIL")
        /\ result.MisconfSummary.Successes = Counted("PASS")
        /\ result.MisconfSummary.Exceptions = Counted("EXCEPTION")
        /\ NonFailuresOnlyIncluded

\* The findings that survive the filters before the policy.
SurvivingVulns ==
    LET uniq == uniqVulnsOf(EmptyMap, prev.Vulnerabilities, opt.Severities,
                            opt.IgnoreUnfixed, getIgnoredIDs(opt.IgnoreFile))
    IN {uniq[k] : k \in DOMAIN uniq}

SurvivingMisconfs ==
    filterMisconfigurations(prev.Misconfigurations, opt.Severities,
                            opt.IncludeNonFailures, getIgnoredIDs(opt.IgnoreFile)).filtered

\* C10: with a policy file, FilterResult fails when the policy cannot be
\* prepared or gives no boolean (or fails) on a surviving vulnerability or
\* misconfiguration, and then assigns neither list; otherwise it keeps
\* exactly the surviving findings on which the policy is false or undefined
\* and drops those on which it is true, so a policy that is true on every
\* vulnerability leaves none.
C10_PolicyDecides ==
    (passes >= 1 /\ opt.PolicyFile # "") =>
        IF \/ PrepareForEval(opt.PolicyFile) # ""
           \/ \E v \in SurvivingVulns : PolicyRejects(v)
           \/ \E k \in 1..Len(SurvivingMisconfs) : PolicyRejects(SurvivingMisconfs[k])
        THEN /\ filterErr # ""
             /\ result.Vulnerabilities = prev.Vulnerabilities
             /\ result.Misconfigurations = prev.Misconfigurations
        ELSE /\ filterErr = ""
             /\ Range(result.Vulnerabilities) = {v \in SurvivingVulns : ~PolicyDrops(v)}
             /\ Len(result.Vulnerabilities) = Cardinality({v \in SurvivingVulns : ~PolicyDrops(v)})
             /\ result.Misconfigurations
                    = SelectSeq(SurvivingMisconfs, LAMBDA m : ~PolicyDrops(m))
             /\ opt.PolicyFile = "ignore-all.rego" => result.Vulnerabilities = <<>>

\* The policy drops one surviving vulnerability and keeps another.
C10_Witness ==
    /\ Filtered /\ passes = 1
    /\ opt.PolicyFile = "ignore-low.rego"
    /\ Cardinality(SurvivingVulns) = 2
    /\ Len(result.Vulnerabilities) = 1
    /\ result.Vulnerabilities[1].Severity = "HIGH"

\* The last call of FilterResult returned, with nil or with an error.
Called == passes >= 1

SecretIgnored(secret) == Contains(getIgnoredIDs(opt.IgnoreFile), secret.RuleID)

LicenseKept(license) ==
    SeverityMatches(license) /\ ~Contains(opt.IgnoreLicenses, license.Name)

\* C22 as stated: FilterResult keeps a secret exactly when its severity is in the
\* severity set, and a license exactly when its severity is in the set and its
\* name is not an ignored license name.
C22_SecretsBySeverity ==
    Called =>
        /\ result.Secrets = SelectSeq(prev.Secrets, SeverityMatches)
        /\ result.Licenses = SelectSeq(prev.Licenses, LicenseKept)

\* C22: FilterResult keeps a secret exactly when its severity is in the severity
\* set and its rule ID is not among the IDs of the ignore file, and a license
\* exactly when its severity is in the set and its name is not an ignored license
\* name; what is kept stays in its order.
C22_SecretsBySeverityAndIgnoreFile ==
    Called =>
        /\ result.Secrets =
              SelectSeq(prev.Secrets,
                        LAMBDA secret : SeverityMatches(secret) /\ ~SecretIgnored(secret))
        /\ result.Licenses = SelectSeq(prev.Licenses, LicenseKept)

\* A secret whose severity is in the set was dropped because the ignore file lists
\* its rule, next to a license dropped because its name is ignored.
C22_Witness ==
    /\ Called /\ passes = 1
    /\ Len(prev.Secrets) = 1
    /\ SeverityMatches(prev.Secrets[1])
    /\ SecretIgnored(prev.Secrets[1])
    /\ result.Secrets = <<>>
    /\ Len(prev.Licenses) = 1
    /\ SeverityMatches(prev.Licenses[1])
    /\ result.Licenses = <<>>

\* The policy of the last call failed: it could not be read or prepared, or its
\* evaluation on a finding that survived the filters failed.
PolicyFailed ==
    /\ Called
    /\ opt.PolicyFile # ""
    /\ LET ignoredIDs == getIgnoredIDs(opt.IgnoreFile)
           m == filterMisconfigurations(prev.Misconfigurations, opt.Severities,
                                        opt.IncludeNonFailures, ignoredIDs)
       IN \E filteredVulns \in filterVulnerabilities(prev.Vulnerabilities, opt.Severities,
                                                     opt.IgnoreUnfixed, ignoredIDs) :
             applyPolicy(filteredVulns, m.filtered, opt.PolicyFile).err # ""

\* C29: when the policy fails, FilterResult returns the error and leaves the
\* vulnerabilities, the misconfigurations and the misconfiguration summary of the
\* result as they were, while the secrets and the licenses are the filtered ones.
C29_PolicyErrorFrame ==
    /\ PolicyFailed <=> filterErr # ""
    /\ filterErr # "" =>
          /\ result.Vulnerabilities = prev.Vulnerabilities
          /\ result.Misconfigurations = prev.Misconfigurations
          /\ result.MisconfSummary = prev.MisconfSummary
          /\ result.Secrets = filterSecrets(prev.Secrets, opt.Severities,
                                            getIgnoredIDs(opt.IgnoreFile))
          /\ result.Licenses = filterLicenses(prev.Licenses, opt.Severities,
                                              opt.IgnoreLicenses)

\* The policy failed on a result with a vulnerability that the severity filter
\* drops and a secret that it drops: the vulnerability is still in the result, the
\* secret is not.
C29_Witness ==
    /\ filterErr # ""
    /\ Len(prev.Vulnerabilities) = 1
    /\ ~SeverityMatches(prev.Vulnerabilities[1])
    /\ result.Vulnerabilities = prev.Vulnerabilities
    /\ Len(prev.Secrets) = 1
    /\ result.Secrets = <<>>

\* ======================================================================
\* getIgnoredIDs on its own
\* ======================================================================
\* The fields of the lines: two IDs, a comment sign alone and before an ID,
\* and expiry fields with the zero date, two dates and no date.
IgnoreFieldSet ==
    {<<"CVE-A">>, <<"CVE-B">>, <<"#">>, <<"#", "CVE-A">>,
     <<"exp:", "0001-01-01">>, <<"exp:", "2024-01-01">>, <<"exp:", "2024-01-02">>,
     <<"exp:", "2024-13-01">>}

RECURSIVE JoinFields(_)
JoinFields(fields) ==
    IF fields = <<>> THEN <<>>
    ELSE IF Len(fields) = 1 THEN Head(fields)
    ELSE Head(fields) \o <<" ">> \o JoinFields(Tail(fields))

\* The lines: at most MaxFields fields, with or without white space before
\* them.
IgnoreLineSet ==
    {pad \o JoinFields(fs) : pad \in {<<>>, <<" ">>}, fs \in SeqsUpTo(IgnoreFieldSet, MaxFields)}

\* Midnight of 2024-01-01, later that day, and midnight of the next day.
NowSet == {Time(2024, 1, 1, 0), Time(2024, 1, 1, 1), Time(2024, 1, 2, 0)}

IgnoreInit ==
    /\ ignoreLines \in SeqsUpTo(IgnoreLineSet, MaxLines)
    /\ now \in NowSet
    /\ activeIDs = <<>>
    /\ ignorePc = "call"

\* getIgnoredIDs on a file of the lines ignoreLines: the file cannot be
\* opened, or it is scanned line by line.
GetIgnoredIDs ==
    /\ ignorePc = "call"
    /\ \/ /\ activeIDs' = <<>>
          /\ ignorePc' = "unreadable"
       \/ /\ activeIDs' = scanLines(<<>>, ignoreLines, now)
          /\ ignorePc' = "done"
    /\ UNCHANGED <<ignoreLines, now>>
    /\ UNCHANGED notIgnoreVars

IgnoreNext == GetIgnoredIDs

InitIgnoreFile ==
    IgnoreInit /\ InspectIdle /\ DetectIdle /\ FilterIdle /\ BaseIdle /\ KeyIdle /\ OspkgIdle /\ TokenIdle /\ LocalIdle /\ LayerIdle /\ HistoryIdle /\ TerraformIdle

SpecIgnoreFile == InitIgnoreFile /\ [][IgnoreNext]_vars

\* The expiry fields of a line, and the date of the first one.
ExpFields(text) ==
    SelectSeq(Fields(TrimSpace(text)), LAMBDA f : HasPrefix(f, "exp:"))

ExpDate(text) == Parse(TrimPrefix(ExpFields(text)[1], "exp:"))

\* The line is a rule (neither blank nor a comment) whose exp: date is
\* absent or not yet expired: now > exp does not hold.
ActiveRule(text) ==
    /\ TrimSpace(text) # <<>>
    /\ ~HasPrefix(TrimSpace(text), "#")
    /\ \/ ExpFields(text) = <<>>
       \/ /\ ~ExpDate(text).err
          /\ ~Before(ExpDate(text).time, now)

RECURSIVE ActiveFirstFields(_)
ActiveFirstFields(lines) ==
    IF lines = <<>> THEN <<>>
    ELSE IF ActiveRule(Head(lines))
    THEN <<Fields(TrimSpace(Head(lines)))[1]>> \o ActiveFirstFields(Tail(lines))
    ELSE ActiveFirstFields(Tail(lines))

\* C11: the IDs read from an ignore file are exactly the first fields of the
\* lines that are neither blank nor a comment and whose exp: date is absent
\* or not yet expired, a rule being expired exactly when now > exp.
C11_ActiveIgnoreSet ==
    ignorePc = "done" => activeIDs = ActiveFirstFields(ignoreLines)

\* ------------------------------------------------------------------------
\* The base layers of an image and the secret analyzer
\* ------------------------------------------------------------------------
\* The history entries of an image config: EmptyLayer is all guessBaseLayers reads.
HistorySet == SeqsUpTo([EmptyLayer : BOOLEAN], MaxHistory)

\* The loop of guessBaseLayers, from the history entry at index i (from 0) on.
RECURSIVE guessBaseLayersLoopNoSkip(_, _, _, _, _, _)
guessBaseLayersLoopNoSkip(diffIDs, histories, baseIndex, i, diffIDIndex, acc) ==
    IF i >= Len(histories) \/ i > baseIndex THEN acc
    ELSE IF diffIDIndex >= Len(diffIDs) THEN <<>>
    ELSE guessBaseLayersLoopNoSkip(diffIDs, histories, baseIndex, i + 1, diffIDIndex + 1,
                                   Append(acc, diffIDs[diffIDIndex + 1]))

RECURSIVE guessBaseLayersLoop(_, _, _, _, _, _)
guessBaseLayersLoop(diffIDs, histories, baseIndex, i, diffIDIndex, acc) ==
    IF i >= Len(histories) \/ i > baseIndex THEN acc
    ELSE IF histories[i + 1].EmptyLayer
         THEN guessBaseLayersLoop(diffIDs, histories, baseIndex, i + 1, diffIDIndex, acc)
    ELSE IF diffIDIndex >= Len(diffIDs) THEN <<>>
    ELSE guessBaseLayersLoop(diffIDs, histories, baseIndex, i + 1, diffIDIndex + 1,
                             Append(acc, diffIDs[diffIDIndex + 1]))

\* guessBaseLayers that takes an empty layer for a layer with a diffID.
guessBaseLayersNoSkip(diffIDs, histories, baseIndex) ==
    guessBaseLayersLoopNoSkip(diffIDs, histories, baseIndex, 0, 0, <<>>)

\* Artifact.guessBaseLayers, given the index GuessBaseImageIndex returned.
guessBaseLayers(diffIDs, histories, baseIndex) ==
    guessBaseLayersLoop(diffIDs, histories, baseIndex, 0, 0, <<>>)

\* The callback of the pipeline in inspect: the analyzers disabled for a layer.
disabledAnalyzers(baseIDs, layer) ==
    IF Contains(baseIDs, layer.DiffID) THEN {"secret"} ELSE {}

\* An image config, the index guessed for its history and the diffIDs of the image.
BaseInit ==
    /\ history \in HistorySet
    /\ baseImageIndex \in -1..(Len(history) - 1)
    /\ layerDiffIDs \in SeqsUpTo(DiffIDSet, MaxLayers)
    /\ baseDiffIDs = <<>>
    /\ disabledAt = <<>>
    /\ basePc = "call"

\* Inspect: guessBaseLayers, before the cache keys are calculated.
GuessBaseLayers ==
    /\ basePc = "call"
    /\ baseDiffIDs' = guessBaseLayers(layerDiffIDs, history, baseImageIndex)
    /\ disabledAt' = [i \in 1..Len(layerDiffIDs) |-> {"pending"}]
    /\ basePc' = "pipeline"
    /\ UNCHANGED <<history, baseImageIndex, layerDiffIDs>>
    /\ UNCHANGED notBaseVars

\* inspect, the callback of the pipeline for the layer at position i (of an image
\* no layer of which is cached): the workers take the layers in any order.
InspectLayerCallback(i) ==
    /\ basePc = "pipeline"
    /\ i \in DOMAIN disabledAt
    /\ disabledAt[i] = {"pending"}
    /\ LET layerKeys == layerKeysOf(DefaultArtifact, layerDiffIDs)
           layer == layerKeyMap(layerDiffIDs, layerKeys)[layerKeys[i]]
       IN disabledAt' = [disabledAt EXCEPT ![i] = disabledAnalyzers(baseDiffIDs, layer)]
    /\ UNCHANGED <<history, baseImageIndex, layerDiffIDs, baseDiffIDs, basePc>>
    /\ UNCHANGED notBaseVars

BaseNext ==
    \/ GuessBaseLayers
    \/ \E i \in 1..MaxLayers : InspectLayerCallback(i)

InitBaseLayers ==
    BaseInit /\ InspectIdle /\ DetectIdle /\ FilterIdle /\ IgnoreIdle /\ KeyIdle /\ OspkgIdle /\ TokenIdle /\ LocalIdle /\ LayerIdle /\ HistoryIdle /\ TerraformIdle

SpecBaseLayers == InitBaseLayers /\ [][BaseNext]_vars

\* The number of non-empty history entries among the first n.
RECURSIVE NonEmptyCount(_, _)
NonEmptyCount(histories, n) ==
    IF n = 0 THEN 0
    ELSE NonEmptyCount(histories, n - 1) + (IF histories[n].EmptyLayer THEN 0 ELSE 1)

\* The layer at position i (from 1) corresponds to a non-empty history entry at or
\* below the guessed base-image index.
IsBaseLayer(i) ==
    \E h \in 1..Len(history) :
        /\ h - 1 <= baseImageIndex
        /\ ~history[h].EmptyLayer
        /\ NonEmptyCount(history, h) = i

\* The non-empty history entries at or below the base-image index all have a diffID.
BaseHistoryFits ==
    NonEmptyCount(history, baseImageIndex + 1) <= Len(layerDiffIDs)

Analyzed(i) == i \in DOMAIN disabledAt /\ disabledAt[i] # {"pending"}

\* C13 as stated: the secret analyzer is disabled for a layer exactly when the layer
\* is a base layer by its position, so every layer above the boundary is analyzed
\* with the secret analyzer enabled.
C13_SecretDisabledIffBaseLayer ==
    \A i \in 1..Len(layerDiffIDs) :
        Analyzed(i) => ("secret" \in disabledAt[i] <=> IsBaseLayer(i))

\* C13: the secret analyzer is disabled for a layer exactly when every non-empty
\* history entry at or below the guessed base-image index has a diffID and the
\* layer's diffID equals the diffID of a layer that is a base layer by its position
\* (so a layer above the boundary with the content of a base layer is analyzed
\* without the secret analyzer, and no layer is when the history does not fit).
C13_SecretDisabledIffBaseDiffID ==
    \A i \in 1..Len(layerDiffIDs) :
        Analyzed(i) =>
            ("secret" \in disabledAt[i] <=>
                /\ BaseHistoryFits
                /\ \E j \in 1..Len(layerDiffIDs) :
                      IsBaseLayer(j) /\ layerDiffIDs[j] = layerDiffIDs[i])

\* A layer above the boundary, with the diffID of the base layer below it, has been
\* analyzed with the secret analyzer disabled.
C13_Witness ==
    /\ Len(layerDiffIDs) = 2
    /\ IsBaseLayer(1) /\ ~IsBaseLayer(2)
    /\ Analyzed(1) /\ Analyzed(2)
    /\ "secret" \in disabledAt[1]
    /\ "secret" \in disabledAt[2]

\* ------------------------------------------------------------------------
\* The cache keys of two Inspect calls on one image
\* ------------------------------------------------------------------------
VersionSet == {1, 2}

\* Artifacts that differ in artifact options and in each of the version sets.
KeyArtifactSet ==
    [Slow : {FALSE}, FilePatterns : FilePatternSet, analyzerVersions : VersionSet,
     handlerVersions : HandlerVersionSet, configAnalyzerVersions : VersionSet]

\* Artifact.calcCacheKeys: the image key and the layer keys
calcCacheKeys(a, imageID, diffIDs) ==
    [imageKey |-> imageKeyOf(a, imageID), layerKeys |-> layerKeysOf(a, diffIDs)]

KeyInit ==
    /\ keyImage \in ImageSet
    /\ keyArtifacts \in [1..2 -> KeyArtifactSet]
    /\ cacheKeys = <<>>

\* Inspect of the next call, up to calcCacheKeys.
CalcCacheKeys ==
    /\ Len(cacheKeys) < Len(keyArtifacts)
    /\ cacheKeys' = Append(cacheKeys,
                           calcCacheKeys(keyArtifacts[Len(cacheKeys) + 1], keyImage.ID,
                                         keyImage.DiffIDs))
    /\ UNCHANGED <<keyImage, keyArtifacts>>
    /\ UNCHANGED notKeyVars

KeyNext == CalcCacheKeys

InitCacheKeys ==
    KeyInit /\ InspectIdle /\ DetectIdle /\ FilterIdle /\ IgnoreIdle /\ BaseIdle /\ OspkgIdle /\ TokenIdle /\ LocalIdle /\ LayerIdle /\ HistoryIdle /\ TerraformIdle

SpecCacheKeys == InitCacheKeys /\ [][KeyNext]_vars

\* C15: two Inspect calls on the same image get the same image key exactly when
\* their config-analyzer versions are the same, whatever their artifact options
\* and handler versions are, and two layers get the same layer key exactly when
\* they have the same diffID and the calls have the same file-analyzer versions,
\* handler versions and artifact options.
C15_KeysDependOn ==
    Len(cacheKeys) = 2 =>
        LET a == keyArtifacts[1]
            b == keyArtifacts[2]
        IN /\ cacheKeys[1].imageKey = cacheKeys[2].imageKey
                <=> a.configAnalyzerVersions = b.configAnalyzerVersions
           /\ \A i, j \in 1..Len(keyImage.DiffIDs) :
                 cacheKeys[1].layerKeys[i] = cacheKeys[2].layerKeys[j]
                    <=> /\ keyImage.DiffIDs[i] = keyImage.DiffIDs[j]
                        /\ a.analyzerVersions = b.analyzerVersions
                        /\ a.handlerVersions = b.handlerVersions
                        /\ a.FilePatterns = b.FilePatterns

\* Two calls that differ in artifact options and handler versions only: the same
\* image key, another key for each layer.
C15_Witness ==
    /\ Len(cacheKeys) = 2
    /\ Len(keyImage.DiffIDs) = 2
    /\ keyArtifacts[1].FilePatterns # keyArtifacts[2].FilePatterns
    /\ keyArtifacts[1].handlerVersions # keyArtifacts[2].handlerVersions
    /\ keyArtifacts[1].analyzerVersions = keyArtifacts[2].analyzerVersions
    /\ keyArtifacts[1].configAnalyzerVersions = keyArtifacts[2].configAnalyzerVersions
    /\ cacheKeys[1].imageKey = cacheKeys[2].imageKey
    /\ cacheKeys[1].layerKeys[1] # cacheKeys[2].layerKeys[1]
    /\ cacheKeys[1].layerKeys[2] # cacheKeys[2].layerKeys[2]

\* ------------------------------------------------------------------------
\* The OS package detector registry
\* ------------------------------------------------------------------------
\* OS families: two of the drivers map, two that it does not hold.
OsFamilySet == {"cbl-mariner", "alpine", "gentoo", ""}

\* The drivers map as the package initialises it.
BuiltinDrivers == {"cbl-mariner", "alpine"}

ErrUnsupportedOS == <<"unsupported os">>

\* xerrors.Errorf("failed detection: %w", err)
FailedDetection(inner) == <<"failed detection", inner>>

\* newDriver that falls back to a driver for an unknown family.
newDriverFallback(registered, family) ==
    IF family \in registered THEN [driver |-> family, err |-> <<>>]
    ELSE [driver |-> "cbl-mariner", err |-> <<>>]

\* newDriver: the driver registered for the family, or ErrUnsupportedOS
newDriver(registered, family) ==
    IF family \in registered THEN [driver |-> family, err |-> <<>>]
    ELSE [driver |-> "", err |-> ErrUnsupportedOS]

\* Packages of two source packages, one version each.
OspkgPackageSet ==
    {[Name |-> "bin", SrcName |-> n,
      Epoch |-> 0, Version |-> <<"1", "0">>, Release |-> <<"1">>,
      SrcEpoch |-> 0, SrcVersion |-> <<"1", "0">>, SrcRelease |-> <<"1">>] : n \in SrcNameSet}

\* What a driver other than the CBL-Mariner one returns from IsSupportedVersion
\* and from Detect.
OtherDriverSet ==
    [supported : BOOLEAN,
     out : {[vulns |-> <<>>, err |-> ""],
            [vulns |-> <<>>, err |-> "driver error"],
            [vulns |-> <<[VulnerabilityID |-> "CVE-1", PkgName |-> "bin",
                          InstalledVersion |-> <<"1", "0", "-", "1">>,
                          FixedVersion |-> <<>>]>>, err |-> ""]}]

\* Scanner.IsSupportedVersion of the CBL-Mariner driver
IsSupportedVersion(family, ver) == TRUE

OspkgInit ==
    /\ drivers = BuiltinDrivers
    /\ osFamily \in OsFamilySet
    /\ osName \in OsVerSet
    /\ ospkgPkgs \in SeqsUpTo(OspkgPackageSet, MaxPkgs)
    /\ ospkgVs \in VulnSrcSet
    /\ driverCalls = <<>>
    /\ driverOut = [vulns |-> <<>>, err |-> ""]
    /\ ospkgOut = NoOut
    /\ ospkgPc = "call"

\* RegisterDriver
RegisterDriver(name) ==
    /\ ospkgPc = "call"
    /\ name \notin drivers
    /\ drivers' = drivers \cup {name}
    /\ UNCHANGED <<osFamily, osName, ospkgPkgs, ospkgVs, driverCalls, driverOut, ospkgOut,
                   ospkgPc>>
    /\ UNCHANGED notOspkgVars

\* ospkg.Detect
OspkgDetect ==
    /\ ospkgPc = "call"
    /\ LET made == newDriver(drivers, osFamily)
       IN IF made.err # <<>>
          THEN /\ ospkgOut' = [vulns |-> <<>>, eosl |-> FALSE, err |-> ErrUnsupportedOS]
               /\ UNCHANGED <<driverCalls, driverOut>>
          ELSE \E other \in OtherDriverSet :
                 LET supported == IF made.driver = "cbl-mariner"
                                  THEN IsSupportedVersion(osFamily, osName)
                                  ELSE other.supported
                     eosl == ~supported
                     res == IF made.driver = "cbl-mariner"
                            THEN detectPkgs(ospkgVs, normalizeOsVer(osName), ospkgPkgs)
                            ELSE other.out
                 IN /\ driverCalls' = << <<made.driver, "IsSupportedVersion">>,
                                         <<made.driver, "Detect">> >>
                    /\ driverOut' = res
                    /\ ospkgOut' = IF res.err # ""
                                   THEN [vulns |-> <<>>, eosl |-> FALSE,
                                         err |-> FailedDetection(res.err)]
                                   ELSE [vulns |-> res.vulns, eosl |-> eosl, err |-> <<>>]
    /\ ospkgPc' = "done"
    /\ UNCHANGED <<drivers, osFamily, osName, ospkgPkgs, ospkgVs>>
    /\ UNCHANGED notOspkgVars

OspkgNext ==
    \/ \E name \in OsFamilySet : RegisterDriver(name)
    \/ OspkgDetect

InitOspkg ==
    OspkgInit /\ InspectIdle /\ DetectIdle /\ FilterIdle /\ IgnoreIdle /\ BaseIdle /\ KeyIdle /\ TokenIdle /\ LocalIdle /\ LayerIdle /\ HistoryIdle /\ TerraformIdle

SpecOspkg == InitOspkg /\ [][OspkgNext]_vars

\* C17: ospkg.Detect for an osFamily the drivers map does not hold returns
\* ErrUnsupportedOS, no vulnerabilities and eosl = false, and has called neither
\* IsSupportedVersion nor Detect on a driver.
C17_UnsupportedOS ==
    (ospkgPc = "done" /\ osFamily \notin drivers) =>
        /\ ospkgOut = [vulns |-> <<>>, eosl |-> FALSE, err |-> ErrUnsupportedOS]
        /\ driverCalls = <<>>

\* Detect was called for a family that is not registered although another family
\* was registered after the package was initialised.
C17_Witness ==
    /\ ospkgPc = "done"
    /\ osFamily = "gentoo"
    /\ "" \in drivers
    /\ ospkgOut.err = ErrUnsupportedOS
    /\ ospkgPkgs # <<>>

\* The advisory source fails for the source package of one of the packages.
SourceFails ==
    \E i \in DOMAIN ospkgPkgs : ospkgVs[ospkgPkgs[i].SrcName].err

\* C18: when the advisory source fails for a package, the CBL-Mariner Detect
\* returns its error and no vulnerabilities, and ospkg.Detect returns that error
\* wrapped as "failed detection", no vulnerabilities and eosl = false.
C18_AdvisorySourceError ==
    (ospkgPc = "done" /\ osFamily = "cbl-mariner" /\ SourceFails) =>
        /\ driverOut = [vulns |-> <<>>, err |-> "failed to get CBL-Mariner advisories"]
        /\ ospkgOut = [vulns |-> <<>>, eosl |-> FALSE,
                       err |-> FailedDetection("failed to get CBL-Mariner advisories")]

\* The source fails for the second package after a vulnerability was found for the
\* first one.
C18_Witness ==
    /\ ospkgPc = "done"
    /\ osFamily = "cbl-mariner"
    /\ Len(ospkgPkgs) = 2
    /\ ~ospkgVs[ospkgPkgs[1].SrcName].err
    /\ detectAdvisories(ospkgPkgs[1],
                        Get(ospkgVs, normalizeOsVer(osName), ospkgPkgs[1].SrcName).advisories)
          # <<>>
    /\ ospkgVs[ospkgPkgs[2].SrcName].err
    /\ ospkgOut.err = FailedDetection("failed to get CBL-Mariner advisories")
    /\ ospkgOut.vulns = <<>>

\* ------------------------------------------------------------------------
\* The registry credentials
\* ------------------------------------------------------------------------
\* A Registry by what it returns for the domain and the options of the call:
\* whether CheckOptions returns nil, whether GetCredential fails, and the
\* credentials GetCredential returns when it does not.
RegistrySet ==
    [check : BOOLEAN, credErr : BOOLEAN, Username : {"user-a", "user-b"},
     Password : {"secret"}]

\* The number of registries init registers: google, ecr, azure.
InitRegistries == 3

\* GetToken whose loop goes on to the next registry when GetCredential fails.
RECURSIVE getTokenLoopContinue(_, _, _)
getTokenLoopContinue(regs, i, calls) ==
    IF i > Len(regs) THEN [auth |-> EmptyBasic, calls |-> calls]
    ELSE LET checked == Append(calls, <<i, "CheckOptions">>)
             asked == Append(checked, <<i, "GetCredential">>)
         IN IF ~regs[i].check THEN getTokenLoopContinue(regs, i + 1, checked)
            ELSE IF regs[i].credErr THEN getTokenLoopContinue(regs, i + 1, asked)
            ELSE [auth |-> [Username |-> regs[i].Username, Password |-> regs[i].Password],
                  calls |-> asked]

\* GetToken, the loop over registries from position i on
RECURSIVE getTokenLoop(_, _, _)
getTokenLoop(regs, i, calls) ==
    IF i > Len(regs) THEN [auth |-> EmptyBasic, calls |-> calls]
    ELSE LET checked == Append(calls, <<i, "CheckOptions">>)
             asked == Append(checked, <<i, "GetCredential">>)
         IN IF ~regs[i].check THEN getTokenLoop(regs, i + 1, checked)
            ELSE IF regs[i].credErr THEN [auth |-> EmptyBasic, calls |-> asked]
            ELSE [auth |-> [Username |-> regs[i].Username, Password |-> regs[i].Password],
                  calls |-> asked]

\* init: the three registries of the package are registered.
TokenInit ==
    /\ registries \in [1..InitRegistries -> RegistrySet]
    /\ registryCalls = <<>>
    /\ auth = EmptyBasic
    /\ tokenPc = "call"

\* RegisterRegistry
RegisterRegistry(registry) ==
    /\ tokenPc = "call"
    /\ Len(registries) < MaxRegistries
    /\ registries' = Append(registries, registry)
    /\ UNCHANGED <<registryCalls, auth, tokenPc>>
    /\ UNCHANGED notTokenVars

\* GetToken
GetToken ==
    /\ tokenPc = "call"
    /\ LET res == getTokenLoop(registries, 1, <<>>)
       IN /\ auth' = res.auth
          /\ registryCalls' = res.calls
    /\ tokenPc' = "done"
    /\ UNCHANGED registries
    /\ UNCHANGED notTokenVars

TokenNext ==
    \/ \E registry \in RegistrySet : RegisterRegistry(registry)
    \/ GetToken

InitToken ==
    TokenInit /\ InspectIdle /\ DetectIdle /\ FilterIdle /\ IgnoreIdle /\ BaseIdle /\ LocalIdle /\ LayerIdle /\ HistoryIdle /\ TerraformIdle
        /\ KeyIdle /\ OspkgIdle

SpecToken == InitToken /\ [][TokenNext]_vars

\* The positions of the registries whose CheckOptions succeeds.
Accepting == {i \in 1..Len(registries) : registries[i].check}

FirstAccepting == CHOOSE i \in Accepting : \A j \in Accepting : i <= j

\* C19: GetToken calls CheckOptions on the registries in registration order up to
\* the first one that accepts, and GetCredential on that one only; it returns that
\* registry's credentials, or empty credentials when its GetCredential fails or
\* when no registry accepts.
C19_FirstAcceptingRegistry ==
    tokenPc = "done" =>
        IF Accepting = {}
        THEN /\ registryCalls = [i \in 1..Len(registries) |-> <<i, "CheckOptions">>]
             /\ auth = EmptyBasic
        ELSE LET f == FirstAccepting
             IN /\ registryCalls =
                      [i \in 1..f |-> <<i, "CheckOptions">>] \o <<<<f, "GetCredential">>>>
                /\ auth = IF registries[f].credErr THEN EmptyBasic
                          ELSE [Username |-> registries[f].Username,
                                Password |-> registries[f].Password]

\* GetCredential of the second registry failed while a later registry accepts too
\* and would have returned credentials.
C19_Witness ==
    /\ tokenPc = "done"
    /\ Len(registries) = MaxRegistries
    /\ ~registries[1].check
    /\ registries[2].check /\ registries[2].credErr
    /\ registries[3].check /\ ~registries[3].credErr
    /\ auth = EmptyBasic
    /\ Len(registryCalls) = 3

\* ------------------------------------------------------------------------
\* The local artifact, and Clean of the local and of the image artifact
\* ------------------------------------------------------------------------
TreeSet == {"tree-a", "tree-b"}

\* Inspect, from the walk to the post handlers: the BlobInfo of the tree (a local
\* BlobInfo has no DiffID).
localBlobInfo(tree) ==
    [DiffID |-> "", OS |-> IF tree = "tree-a" THEN "alpine" ELSE ""]

\* calcCacheKey: the SHA-256 digest of the BlobInfo's JSON encoding
Digest(blobInfo) ==
    IF blobInfo.OS = "alpine" THEN "sha256:json-alpine" ELSE "sha256:json-none"

\* Artifact.calcCacheKey
calcCacheKey(a, blobInfo) ==
    CalcKey(Digest(blobInfo), a.analyzerVersions, a.handlerVersions, a.FilePatterns)

\* Inspect: the ArtifactReference it returns
localReference(cacheKey) ==
    [Name |-> "rootPath", Type |-> "filesystem", ID |-> cacheKey, BlobIDs |-> <<cacheKey>>]

\* cache.DeleteBlobs: the cache without the blobs of the keys
RECURSIVE DeleteBlobsOf(_, _)
DeleteBlobsOf(blobs, blobIDs) ==
    IF blobIDs = <<>> THEN blobs
    ELSE DeleteBlobsOf(Delete(blobs, Head(blobIDs)), Tail(blobIDs))

\* Blobs the cache may hold before the local Inspect: a layer of an image and the
\* blob of an earlier Inspect of tree-a by the default artifact.
EarlierBlobs ==
    LET layerKey == CalcKey("sha256:d1", 1, 1, "patterns-a")
        localKey == calcCacheKey(DefaultArtifact, localBlobInfo("tree-a"))
    IN [k \in {layerKey, localKey} |->
           IF k = layerKey THEN inspectLayer([DiffID |-> "sha256:d1"])
           ELSE localBlobInfo("tree-a")]

LocalInit ==
    /\ rootTree \in TreeSet
    /\ localArtifact \in ArtifactSet
    /\ \E held \in SUBSET DOMAIN EarlierBlobs : localCache = [k \in held |-> EarlierBlobs[k]]
    /\ localRef = NoRef
    /\ localErr = ""
    /\ localPuts = <<>>
    /\ cacheBefore = EmptyMap
    /\ localRuns = 0
    /\ localPc = "call"

\* Artifact.Inspect of the local artifact
LocalInspect ==
    /\ localPc # "off"
    /\ localRuns < MaxRuns
    /\ localRuns' = localRuns + 1
    /\ LET blobInfo == localBlobInfo(rootTree)
           cacheKey == calcCacheKey(localArtifact, blobInfo)
       IN \/ \* the walk, the post analysis, the hooks or calcCacheKey fail
             /\ localErr' \in {"walk filesystem", "post analysis error",
                               "failed to call hooks", "failed to calculate a cache key"}
             /\ localRef' = NoRef
             /\ localPuts' = <<>>
             /\ UNCHANGED localCache
          \/ \* PutBlob fails
             /\ localErr' = "failed to store blob"
             /\ localRef' = NoRef
             /\ localPuts' = <<cacheKey>>
             /\ UNCHANGED localCache
          \/ /\ localCache' = Put(localCache, cacheKey, blobInfo)
             /\ localPuts' = <<cacheKey>>
             /\ localRef' = localReference(cacheKey)
             /\ localErr' = ""
    /\ localPc' = "inspected"
    /\ UNCHANGED <<rootTree, localArtifact, cacheBefore>>
    /\ UNCHANGED notLocalVars

\* Clean of the local artifact that empties the cache.
LocalCleanAll ==
    /\ localPc = "inspected"
    /\ localErr = ""
    /\ cacheBefore' = localCache
    /\ \/ /\ localCache' = EmptyMap
          /\ localErr' = ""
       \/ /\ localErr' = "delete error"
          /\ UNCHANGED localCache
    /\ localPc' = "cleaned"
    /\ UNCHANGED <<rootTree, localArtifact, localRef, localPuts, localRuns>>
    /\ UNCHANGED notLocalVars

\* Artifact.Clean of the local artifact, called with the reference Inspect returned:
\* cache.DeleteBlobs deletes the blobs or fails.
LocalClean ==
    /\ localPc = "inspected"
    /\ localErr = ""
    /\ cacheBefore' = localCache
    /\ \/ /\ localCache' = DeleteBlobsOf(localCache, localRef.BlobIDs)
          /\ localErr' = ""
       \/ /\ localErr' = "delete error"
          /\ UNCHANGED localCache
    /\ localPc' = "cleaned"
    /\ UNCHANGED <<rootTree, localArtifact, localRef, localPuts, localRuns>>
    /\ UNCHANGED notLocalVars

\* Artifact.Clean of the image artifact on the same cache, called with the
\* reference the local Inspect returned.
ImageClean ==
    /\ localPc = "inspected"
    /\ localErr = ""
    /\ cacheBefore' = localCache
    /\ localErr' = ""
    /\ localPc' = "imageCleaned"
    /\ UNCHANGED <<rootTree, localArtifact, localCache, localRef, localPuts, localRuns>>
    /\ UNCHANGED notLocalVars

LocalNext ==
    \/ LocalInspect
    \/ LocalClean
    \/ ImageClean

InitLocal ==
    LocalInit /\ InspectIdle /\ DetectIdle /\ FilterIdle /\ IgnoreIdle /\ BaseIdle /\ LayerIdle /\ HistoryIdle /\ TerraformIdle
        /\ KeyIdle /\ OspkgIdle /\ TokenIdle

SpecLocal == InitLocal /\ [][LocalNext]_vars

\* C20: a local Inspect that succeeded made one PutBlob and returned a reference
\* of type Filesystem whose ID is its only BlobID, the cache key under which the
\* BlobInfo of the tree is stored; a Clean of that reference that succeeded left in
\* the cache what it held before except that blob; Clean of an image artifact
\* left the cache as it was.
C20_OneBlobAndClean ==
    /\ (localPc = "inspected" /\ localErr = "") =>
          /\ Len(localPuts) = 1
          /\ localRef.Type = "filesystem"
          /\ localRef.BlobIDs = <<localRef.ID>>
          /\ localRef.ID = localPuts[1]
          /\ localRef.ID = calcCacheKey(localArtifact, localBlobInfo(rootTree))
          /\ localRef.ID \in DOMAIN localCache
          /\ localCache[localRef.ID] = localBlobInfo(rootTree)
    /\ (localPc = "cleaned" /\ localErr = "") =>
          /\ DOMAIN localCache = DOMAIN cacheBefore \ {localRef.ID}
          /\ \A k \in DOMAIN localCache : localCache[k] = cacheBefore[k]
    /\ localPc = "imageCleaned" => localCache = cacheBefore

\* Clean has deleted the blob of the local Inspect from a cache that holds the
\* blob of an image layer too.
C20_Witness ==
    /\ localPc = "cleaned"
    /\ localErr = ""
    /\ localRef.Type = "filesystem"
    /\ localRef.ID \in DOMAIN cacheBefore
    /\ localRef.ID \notin DOMAIN localCache
    /\ localCache # EmptyMap

\* ------------------------------------------------------------------------
\* inspectLayer and the walk of the local Inspect: the walk, the file-analyzer
\* tasks, PostAnalyze and the deferred calls
\* ------------------------------------------------------------------------
LayerInit ==
    /\ scanKind \in {"layer", "local"}
    /\ layerPc = "call"
    /\ toWalk \in 0..MaxFiles
    /\ tasks = <<>>
    /\ reader = "none"
    /\ scratch = "none"
    /\ postAnalyzeCalls = 0
    /\ layerErr = ""
    /\ runningAtReturn = 0

RunningTasks == {i \in 1..Len(tasks) : tasks[i] = "running"}

\* The deferred calls of inspectLayer: rc.Close() and os.RemoveAll(tmpDir), each
\* registered once its resource exists.
DeferredCalls ==
    /\ reader' = IF reader = "open" THEN "closed" ELSE reader
    /\ scratch' = IF scratch = "exists" THEN "removed" ELSE scratch

\* A return of the call with an error.
ReturnError(e) ==
    /\ layerErr' = e
    /\ layerPc' = "returned"
    /\ runningAtReturn' = Cardinality(RunningTasks)
    /\ DeferredCalls

\* inspectLayer up to the walk: uncompressedLayer, then os.MkdirTemp. The local
\* Inspect has neither a reader nor a scratch directory.
BeginLayer ==
    /\ layerPc = "call"
    /\ IF scanKind = "local"
       THEN /\ layerPc' = "walk"
            /\ UNCHANGED <<reader, scratch, layerErr, runningAtReturn>>
       ELSE \/ /\ layerErr' = "unable to get uncompressed layer"
               /\ layerPc' = "returned"
               /\ UNCHANGED <<reader, scratch, runningAtReturn>>
            \/ /\ layerErr' = "mkdir temp error"
               /\ layerPc' = "returned"
               /\ reader' = "closed"
               /\ UNCHANGED <<scratch, runningAtReturn>>
            \/ /\ reader' = "open"
               /\ scratch' = "exists"
               /\ layerPc' = "walk"
               /\ UNCHANGED <<layerErr, runningAtReturn>>
    /\ UNCHANGED <<scanKind, toWalk, tasks, postAnalyzeCalls>>
    /\ UNCHANGED notLayerVars

\* The walk callback that leaves the scratch directory and the reader behind when
\* it fails.
WalkFileLeak ==
    /\ layerPc = "walk"
    /\ toWalk > 0
    /\ \/ /\ toWalk' = toWalk - 1
          /\ \/ tasks' = Append(tasks, "running")
             \/ UNCHANGED tasks
          /\ UNCHANGED <<layerPc, layerErr, runningAtReturn, reader, scratch>>
       \/ /\ \E e \in {"walk error", "failed to analyze", "failed to build filesystem"} :
                /\ layerErr' = e
                /\ layerPc' = "returned"
                /\ runningAtReturn' = Cardinality(RunningTasks)
          /\ UNCHANGED <<toWalk, tasks, reader, scratch>>
    /\ UNCHANGED <<scanKind, postAnalyzeCalls>>
    /\ UNCHANGED notLayerVars

\* The walker delivers the next file to the callback: AnalyzeFile starts a task for
\* the file or none, then buildFS stages the file; the walker, AnalyzeFile (also
\* when the context is cancelled) or buildFS may fail, and the call returns.
WalkFile ==
    /\ layerPc = "walk"
    /\ toWalk > 0
    /\ \/ /\ toWalk' = toWalk - 1
          /\ \/ tasks' = Append(tasks, "running")
             \/ UNCHANGED tasks
          /\ UNCHANGED <<layerPc, layerErr, runningAtReturn, reader, scratch>>
       \/ /\ \E e \in {"walk error", "failed to analyze", "failed to build filesystem"} :
                ReturnError(e)
          /\ UNCHANGED <<toWalk, tasks>>
    /\ UNCHANGED <<scanKind, postAnalyzeCalls>>
    /\ UNCHANGED notLayerVars

\* Walk returns nil.
WalkEnd ==
    /\ layerPc = "walk"
    /\ toWalk = 0
    /\ layerPc' = "wait"
    /\ UNCHANGED <<scanKind, toWalk, tasks, reader, scratch, postAnalyzeCalls, layerErr,
                   runningAtReturn>>
    /\ UNCHANGED notLayerVars

\* A file-analyzer task finishes and calls wg.Done().
TaskDone(i) ==
    /\ i \in RunningTasks
    /\ tasks' = [tasks EXCEPT ![i] = "done"]
    /\ UNCHANGED <<scanKind, layerPc, toWalk, reader, scratch, postAnalyzeCalls, layerErr,
                   runningAtReturn>>
    /\ UNCHANGED notLayerVars

\* PostAnalyze called without wg.Wait() before it.
StartPostAnalyzeNoWait ==
    /\ layerPc = "wait"
    /\ postAnalyzeCalls' = postAnalyzeCalls + 1
    /\ layerPc' = "post"
    /\ UNCHANGED <<scanKind, toWalk, tasks, reader, scratch, layerErr, runningAtReturn>>
    /\ UNCHANGED notLayerVars

\* wg.Wait() returns, and PostAnalyze is called.
StartPostAnalyze ==
    /\ layerPc = "wait"
    /\ RunningTasks = {}
    /\ postAnalyzeCalls' = postAnalyzeCalls + 1
    /\ layerPc' = "post"
    /\ UNCHANGED <<scanKind, toWalk, tasks, reader, scratch, layerErr, runningAtReturn>>
    /\ UNCHANGED notLayerVars

\* PostAnalyze returns.
PostAnalyzeReturn ==
    /\ layerPc = "post"
    /\ \/ ReturnError("post analysis error")
       \/ /\ layerPc' = "handle"
          /\ UNCHANGED <<layerErr, runningAtReturn, reader, scratch>>
    /\ UNCHANGED <<scanKind, toWalk, tasks, postAnalyzeCalls>>
    /\ UNCHANGED notLayerVars

\* result.Sort, the BlobInfo, PostHandle, and the return of the call.
PostHandle ==
    /\ layerPc = "handle"
    /\ \/ ReturnError("post handler error")
       \/ /\ layerPc' = "returned"
          /\ runningAtReturn' = Cardinality(RunningTasks)
          /\ DeferredCalls
          /\ UNCHANGED layerErr
    /\ UNCHANGED <<scanKind, toWalk, tasks, postAnalyzeCalls>>
    /\ UNCHANGED notLayerVars

LayerNext ==
    \/ BeginLayer
    \/ WalkFile
    \/ WalkEnd
    \/ \E i \in 1..MaxFiles : TaskDone(i)
    \/ StartPostAnalyze
    \/ PostAnalyzeReturn
    \/ PostHandle

InitLayer ==
    LayerInit /\ InspectIdle /\ DetectIdle /\ FilterIdle /\ IgnoreIdle /\ BaseIdle /\ HistoryIdle /\ TerraformIdle
        /\ KeyIdle /\ OspkgIdle /\ TokenIdle /\ LocalIdle

SpecLayer == InitLayer /\ [][LayerNext]_vars

\* C23: PostAnalyze is called at most once in a layer or a local scan, only after
\* the walk has delivered every file and every file-analyzer task started during
\* the walk has finished, and once when the call returns without an error.
C23_PostAnalyzeAfterTasks ==
    /\ postAnalyzeCalls <= 1
    /\ postAnalyzeCalls = 1 => (toWalk = 0 /\ RunningTasks = {})
    /\ layerPc \in {"post", "handle"} => postAnalyzeCalls = 1
    /\ (layerPc = "returned" /\ layerErr = "") => postAnalyzeCalls = 1

\* PostAnalyze has started in a layer after a task for each of its files finished.
C23_Witness ==
    /\ scanKind = "layer"
    /\ layerPc = "post"
    /\ Len(tasks) = MaxFiles
    /\ RunningTasks = {}
    /\ postAnalyzeCalls = 1

\* C24: when inspectLayer has returned, with or without an error, the scratch
\* directory it made is removed and the layer reader it opened is closed.
C24_ScratchRemovedReaderClosed ==
    layerPc = "returned" => (scratch # "exists" /\ reader # "open")

\* inspectLayer returned the error of the walk after it had made its scratch
\* directory and staged a file.
C24_Witness ==
    /\ scanKind = "layer"
    /\ layerPc = "returned"
    /\ layerErr = "failed to build filesystem"
    /\ Len(tasks) >= 1
    /\ scratch = "removed"
    /\ reader = "closed"

\* C27 as stated: when inspectLayer has returned, on success or on an error, no
\* file-analyzer task that it started is still running.
C27_NoTaskRunningAtReturn ==
    (scanKind = "layer" /\ layerPc = "returned") => runningAtReturn = 0

\* ------------------------------------------------------------------------
\* The Dockerfile-from-history analyzer
\* ------------------------------------------------------------------------
\* A CreatedBy string is a sequence of characters in which "/bin/sh -c", "#(nop)",
\* an instruction name and an argument each stand as one element.
ShellPrefix == <<"/bin/sh -c">>

NopPrefix == <<"/bin/sh -c", " ", "#(nop)">>

CreatedBySet ==
    {NopPrefix \o <<" ", "CMD", " ", "x">>,
     ShellPrefix \o <<" ", "x">>,
     ShellPrefix \o <<" ", "x", " ", "/bin/sh -c", " ", "y">>,
     <<"USER", " ", "x">>,
     <<"HEALTHCHECK", " ", "x">>,
     <<"COPY", " ", "x">>}

\* Durations are in seconds.
HealthcheckSet ==
    [Interval : {0, 5}, Timeout : {0, 5}, StartPeriod : {0, 90}, Retries : {0, 3},
     Test : {<<<<"CMD-SHELL">>, <<"x">>>>, <<<<"CMD">>, <<"x">>>>}]

NoHealthcheck ==
    [Interval |-> 0, Timeout |-> 0, StartPeriod |-> 0, Retries |-> 0, Test |-> <<>>]

\* strings.HasPrefix with a prefix of several elements
HasPrefixSeq(str, prefix) ==
    Len(str) >= Len(prefix) /\ SubSeq(str, 1, Len(prefix)) = prefix

\* strings.ReplaceAll of one element by another
ReplaceAll(str, old, new) == [i \in DOMAIN str |-> IF str[i] = old THEN new ELSE str[i]]

\* strings.Join
RECURSIVE Join(_, _)
Join(elems, sep) ==
    IF elems = <<>> THEN <<>>
    ELSE IF Len(elems) = 1 THEN elems[1]
    ELSE elems[1] \o sep \o Join(Tail(elems), sep)

\* The %s verb on a time.Duration of whole seconds below one hour.
DurationString(d) ==
    IF d = 0 THEN <<"0", "s">>
    ELSE IF d < 60 THEN Itoa(d) \o <<"s">>
    ELSE Itoa(d \div 60) \o <<"m">> \o Itoa(d % 60) \o <<"s">>

\* The HEALTHCHECK case of Analyze.
healthcheckLine(hc) ==
    LET interval == IF hc.Interval # 0
                    THEN <<"--interval=">> \o DurationString(hc.Interval) \o <<" ">> ELSE <<>>
        timeout == IF hc.Timeout # 0
                   THEN <<"--timeout=">> \o DurationString(hc.Timeout) \o <<" ">> ELSE <<>>
        startPeriod == IF hc.StartPeriod # 0
                       THEN <<"--startPeriod=">> \o DurationString(hc.StartPeriod) \o <<" ">>
                       ELSE <<>>
        retries == IF hc.Retries # 0
                   THEN <<"--retries=">> \o Itoa(hc.Retries) \o <<" ">> ELSE <<>>
        command == ReplaceAll(Join(hc.Test, <<" ">>), "CMD-SHELL", "CMD")
    IN <<"HEALTHCHECK", " ">> \o interval \o timeout \o startPeriod \o retries \o command

\* The switch of Analyze on one history entry.
createdByOf(h, hc) ==
    IF HasPrefixSeq(h, NopPrefix) THEN SubSeq(h, Len(NopPrefix) + 1, Len(h))
    ELSE IF HasPrefixSeq(h, ShellPrefix) THEN ReplaceAll(h, "/bin/sh -c", "RUN")
    ELSE IF HasPrefixSeq(h, <<"USER">>) THEN h
    ELSE IF HasPrefixSeq(h, <<"HEALTHCHECK">>) THEN healthcheckLine(hc)
    ELSE <<>>

\* The loop of Analyze from the history entry at index i (from 0) on: the lines of
\* the Dockerfile buffer.
RECURSIVE analyzeLoop(_, _, _)
analyzeLoop(histories, hc, i) ==
    IF i >= Len(histories) THEN <<>>
    ELSE <<TrimSpace(createdByOf(histories[i + 1], hc))>> \o analyzeLoop(histories, hc, i + 1)

HistoryInit ==
    /\ configHistory \in SeqsUpTo(CreatedBySet, MaxEntries)
    /\ histBaseIndex \in -1..(Len(configHistory) - 1)
    /\ healthcheck \in IF \E i \in DOMAIN configHistory : configHistory[i][1] = "HEALTHCHECK"
                       THEN HealthcheckSet ELSE {NoHealthcheck}
    /\ dockerfile = <<>>
    /\ historyPc = "call"

\* historyAnalyzer.Analyze up to the virtual file handed to the scanner.
Analyze ==
    /\ historyPc = "call"
    /\ dockerfile' = analyzeLoop(configHistory, healthcheck, histBaseIndex + 1)
    /\ historyPc' = "done"
    /\ UNCHANGED <<configHistory, histBaseIndex, healthcheck>>
    /\ UNCHANGED notHistoryVars

HistoryNext == Analyze

InitHistory ==
    HistoryInit /\ InspectIdle /\ DetectIdle /\ FilterIdle /\ IgnoreIdle /\ BaseIdle /\ TerraformIdle
        /\ KeyIdle /\ OspkgIdle /\ TokenIdle /\ LocalIdle /\ LayerIdle

SpecHistory == InitHistory /\ [][HistoryNext]_vars

\* The HEALTHCHECK instruction as the claim words it: the flags --interval,
\* --timeout, --start-period and --retries, each when its value is not zero, then
\* the test command with CMD-SHELL rewritten to CMD.
HealthcheckInstruction(hc) ==
    <<"HEALTHCHECK", " ">>
        \o (IF hc.Interval # 0
            THEN <<"--interval=">> \o DurationString(hc.Interval) \o <<" ">> ELSE <<>>)
        \o (IF hc.Timeout # 0
            THEN <<"--timeout=">> \o DurationString(hc.Timeout) \o <<" ">> ELSE <<>>)
        \o (IF hc.StartPeriod # 0
            THEN <<"--start-period=">> \o DurationString(hc.StartPeriod) \o <<" ">> ELSE <<>>)
        \o (IF hc.Retries # 0
            THEN <<"--retries=">> \o Itoa(hc.Retries) \o <<" ">> ELSE <<>>)
        \o ReplaceAll(Join(hc.Test, <<" ">>), "CMD-SHELL", "CMD")

\* The line of one history entry as the claim words it; an entry of no kind the
\* claim names gives an empty line.
InstructionOf(h, hc) ==
    IF HasPrefixSeq(h, NopPrefix) THEN TrimSpace(SubSeq(h, Len(NopPrefix) + 1, Len(h)))
    ELSE IF HasPrefixSeq(h, ShellPrefix)
         THEN <<"RUN">> \o SubSeq(h, Len(ShellPrefix) + 1, Len(h))
    ELSE IF Head(h) = "USER" THEN h
    ELSE IF Head(h) = "HEALTHCHECK" THEN HealthcheckInstruction(hc)
    ELSE <<>>

\* C25 as stated: the pseudo-Dockerfile has one line for each history entry after
\* the guessed base index and for no other entry: X for '/bin/sh -c #(nop) X',
\* RUN X for '/bin/sh -c X', the entry itself for a USER entry, and for a
\* HEALTHCHECK entry the instruction with --interval, --timeout, --start-period and
\* --retries, each only when not zero, followed by the test command with CMD-SHELL
\* rewritten to CMD.
C25_PseudoDockerfile ==
    historyPc = "done" =>
        /\ Len(dockerfile) = Len(configHistory) - (histBaseIndex + 1)
        /\ \A k \in DOMAIN dockerfile :
              dockerfile[k] = InstructionOf(configHistory[histBaseIndex + 1 + k], healthcheck)

\* ------------------------------------------------------------------------
\* The Terraform post-analyzer
\* ------------------------------------------------------------------------
\* A path is a sequence of characters in which "/" and "." are themselves and any
\* other element stands for a run of characters that are neither.
PathCharSet == {"/", ".", "a", "tf", "json", "tfvars"}

requiredExts == <<<<".", "tf">>, <<".", "tf", ".", "json">>, <<".", "tfvars">>>>

\* filepath.Ext: the suffix that begins at the last dot of the last element of the
\* path, empty when that element has no dot.
RECURSIVE Ext(_, _)
Ext(path, i) ==
    IF i < 1 \/ path[i] = "/" THEN <<>>
    ELSE IF path[i] = "." THEN SubSeq(path, i, Len(path))
    ELSE Ext(path, i - 1)

\* terraformConfigAnalyzer.Required
Required(path) == Contains(requiredExts, Ext(path, Len(path)))

TerraformInit ==
    /\ filePath \in SeqsUpTo(PathCharSet, MaxPathLen)
    /\ required = FALSE
    /\ terraformPc = "call"

\* The analyzer group asks the post-analyzer whether it requires the file.
RequiredCall ==
    /\ terraformPc = "call"
    /\ required' = Required(filePath)
    /\ terraformPc' = "done"
    /\ UNCHANGED filePath
    /\ UNCHANGED notTerraformVars

TerraformNext == RequiredCall

InitTerraform ==
    TerraformInit /\ InspectIdle /\ DetectIdle /\ FilterIdle /\ IgnoreIdle /\ BaseIdle
        /\ KeyIdle /\ OspkgIdle /\ TokenIdle /\ LocalIdle /\ LayerIdle /\ HistoryIdle

SpecTerraform == InitTerraform /\ [][TerraformNext]_vars

\* strings.HasSuffix
HasSuffixSeq(str, suffix) ==
    Len(str) >= Len(suffix) /\ SubSeq(str, Len(str) - Len(suffix) + 1, Len(str)) = suffix

\* C30 as stated: Required returns true for every path that ends in .tf, .tf.json
\* or .tfvars, and false for every other path.
C30_RequiredBySuffix ==
    terraformPc = "done" =>
        (required <=> \E i \in DOMAIN requiredExts : HasSuffixSeq(filePath, requiredExts[i]))

=============================================================================
